---- MODULE Spec2Model ----
(***************************************************************************)
(* A verification model of the craybond kernel: the transient/permanent    *)
(* bump allocators (kernel/ram_e.c), the process table and scheduler       *)
(* (kernel/process/scheduler.c, kernel/gic.c), the EL0 syscall handler     *)
(* (kernel/process/syscall.c), the panic paths                             *)
(* (kernel/exception_handler.c), the virtio-gpu command engine and the     *)
(* graphics bring-up (virtio_gpu_pci_driver.c, ramfb_driver.c, fw_cfg.c,   *)
(* graphics.c), the code relocator (relocate_code in scheduler.c), the     *)
(* translation-table builder (kernel/mmu.c) and the device-tree scan       *)
(* (kernel/dtb.c).                                                         *)
(*                                                                         *)
(* The machine word is 64 bits in the source.  TLC integers are 32 bits,   *)
(* so the model keeps the page size (4096) and the arithmetic modulo the   *)
(* word, but scales the word to WordPages pages; every wrap of the source  *)
(* modulo 2^64 is a wrap of the model modulo Word.                         *)
(***************************************************************************)
EXTENDS Integers, Sequences, FiniteSets, TLC

VARIABLES
    \* ---- kernel/ram_e.c ----
    next_free_temp_memory,   \* transient bump pointer
    next_free_perm_memory,   \* permanent bump pointer
    temp_free_list,          \* head of the transient free list (0 = empty)
    heapHdr,                 \* FreeBlock headers written into freed blocks
    live,                    \* blocks handed out by talloc and not yet freed
    lastCall,                \* the allocator call that produced this state
    prevCall,                \* the allocator call before it
    allocOps,                \* number of allocator calls so far
    \* ---- kernel/process/scheduler.c ----
    processes,               \* the process table
    current_proc,
    proc_count,
    \* ---- the CPU ----
    cpuPos,                  \* the code the CPU is executing
    cpuEL,                   \* its exception level
    irqMasked,               \* PSTATE.I
    timerOn,                 \* the physical timer is enabled (timer_enable)
    timerPending,            \* IRQ 30 is pending at the GIC
    \* ---- observations ----
    panicked,                \* a panic has been entered
    panicProc,               \* current_proc when it was entered
    restoredAfterPanic,      \* restore_context ran after the panic was entered
    lastRestore,             \* the last restore_context: process and IRQ mask it set
    switchLog,               \* values switch_proc gave current_proc (last proc_count of them)
    lastSvc,                 \* the last SVC taken from EL0
    svcOut,                  \* UART output of its handler
    panicOut,                \* UART output of the panic
    \* ---- virtio-gpu queue 0 (virtio_gpu_pci_driver.c) ----
    desc,                    \* descriptor table, entries 0 and 1
    avail,                   \* the available ring: idx and ring[128]
    used,                    \* the used ring: idx and ring[128]
    vq_pc,                   \* position of the caller inside vgp_send_command
    vq_flags,                \* the flags argument of the call in progress
    last_used_idx,           \* its local variable
    notified,                \* the notify store has reached the device
    dev_last_avail,          \* the device's count of chains it has taken
    dev_head,                \* head of the chain the device is completing (-1: none)
    entryUsed,               \* used.idx when the call in progress was entered
    vqCalls,                 \* number of calls entered
    vq_resp,                 \* the resp_addr argument of the call in progress
    cmdType,                 \* hdr.type of the command in the command buffer
    respBuf,                 \* hdr.type found in the buffer VIRTQUEUE_RESP
    dispInfoBuf,             \* pmodes[] found in the buffer VIRTQUEUE_DISP_INFO
    device_status,           \* common_cfg->device_status
    queue_enable,            \* common_cfg->queue_enable
    \* ---- graphics bring-up (graphics.c, virtio_gpu_pci_driver.c, ramfb_driver.c, fw_cfg.c) ----
    gpu_pc,                  \* position inside gpu_init / vgp_init
    pciPresent,              \* find_pci_device finds the virtio-gpu function
    featuresOk,              \* the device keeps FEATURES_OK when it is written
    devScanouts,             \* the scanouts the device reports
    prefSize,                \* the argument of gpu_init
    display_width,
    display_height,
    scanout_id,
    scanout_found,
    default_width,
    default_height,
    fbAllocSize,             \* argument of the framebuffer palloc (-1: not called)
    sentLog,                 \* hdr.type of every command handed to vgp_send_command
    cfg_log,                 \* vgp_start's accesses to common_cfg, in program order
    vgp_ret,                 \* return value of vgp_init ("none" until it returns)
    fwPresent,               \* the fw_cfg signature reads back
    fwDir,                   \* the fw_cfg directory kept by the firmware
    stackFile,               \* the uninitialized struct fw_cfg_file of rfb_init
    rfb_ret,                 \* return value of rfb_init ("none": not called)
    dmaLog,                  \* selectors of the fw_cfg DMA writes
    chosen_GPU,
    gpu_ready_flag,          \* _gpu_ready
    \* ---- relocate_code (kernel/process/scheduler.c) ----
    rl_blob,                 \* the instruction words at src
    rl_cfg,                  \* src, the two destinations and the data regions
    rl_at1,                  \* the words written at dst1 (<<>>: not yet relocated)
    rl_at2,                  \* the words written at dst2 from the copy at dst1
    rl_direct,               \* the words written at dst2 from src
    \* ---- kernel/mmu.c ----
    mmu_pt,                  \* the non-zero entries of the translation tables
    mmu_ntables,             \* tables taken from palloc so far
    mmu_last,                \* the last mapping call
    mmu_calls,               \* number of mapping calls so far
    \* ---- kernel/dtb.c ----
    dtb_tree,                \* the device tree the blob was flattened from
    dtb_mem,                 \* the blob at DTB_ADDR, byte by byte
    dtb_out,                 \* what get_memory_region returned and stored
    \* ---- kernel/fw/fw_cfg.c : a call of fw_find_file ----
    fw_present,              \* the fw_cfg signature reads back
    fw_dir,                  \* the directory the firmware keeps
    fw_search,               \* the name searched for
    fw_file,                 \* the caller's struct fw_cfg_file
    fw_ret,                  \* the value returned ("none": not yet called)
    \* ---- calls of create_process and create_kernel_process on a filling table ----
    create_last,             \* the last such call: its number, callee and return value
    \* ---- kernel/gic.c : irq_el1_handler ----
    irq_log,                 \* what the last run of the handler did, in order
    \* ---- kernel/console/serial/uart.c, kernel/console/kio.c, statement by statement ----
    con_pc,                  \* the function running, the statement it is at, its loop index
    con_text,                \* the characters it has to emit
    con_out,                 \* the characters it has emitted
    con_buf,                 \* the buffer string_format_args returned (0: none)
    con_n,                   \* console calls entered so far
    \* ---- bootscreen.c and syscall.c sharing the transient allocator ----
    bs_pc,                   \* where the bootscreen process is in its code
    bs_result,               \* the local result of the talloc it is in (0: none)
    bs_s,                    \* s.data held by boot_draw_name (0: none)
    bs_draws,                \* calls of boot_draw_name entered
    svc_buf,                 \* s.data held by the print of the SVC handler (0: none)
    svc_n,                   \* printf syscalls entered
    alloc_overlap,           \* a talloc or temp_free ran inside another one
    \* ---- kernel/mmu.c : mmu_init, loop iteration by loop iteration ----
    mi_pc,                   \* the loop mmu_init is in
    mi_addr,                 \* the loop variable addr
    mi_layout,               \* the linker symbols, and how the build shifts by 54
    \* ---- kernel/process/proc_allocator.c, and create_process with its addresses ----
    pm_mapped,               \* the pages of user RAM mapped in mem_table_l1 (page numbers from user_ram_start)
    pm_regions,              \* the successful alloc_proc_mem calls: size asked for, address returned
    pm_last,                 \* the last alloc_proc_mem call: size, return value, pages mapped before it
    pm_calls,                \* alloc_proc_mem calls and create_process calls so far
    pm_procs,                \* processes[0 .. pm_count - 1] as create_process wrote them
    pm_count,                \* proc_count
    \* ---- kernel processes that draw (bootscreen.c, virtio_gpu_pci_driver.c) ----
    drawers                  \* per process: position, commands left, last_used_idx, panic

allocVars == <<next_free_temp_memory, next_free_perm_memory, temp_free_list,
               heapHdr, live, lastCall, prevCall, allocOps>>

kernVars == <<processes, current_proc, proc_count, cpuPos, cpuEL, irqMasked,
              timerOn, timerPending, panicked, panicProc, restoredAfterPanic,
              lastRestore, switchLog, lastSvc, svcOut, panicOut>>

vqVars == <<desc, avail, used, vq_pc, vq_flags, last_used_idx, notified,
            dev_last_avail, dev_head, entryUsed, vqCalls>>

\* the buffers of the command engine and the device's status registers
vqBufVars == <<vq_resp, cmdType, respBuf, dispInfoBuf, device_status, queue_enable>>

gpuVars == <<gpu_pc, pciPresent, featuresOk, devScanouts, prefSize, display_width,
             display_height, scanout_id, scanout_found, default_width,
             default_height, fbAllocSize, sentLog, vgp_ret, fwPresent, fwDir,
             stackFile, rfb_ret, dmaLog, chosen_GPU, gpu_ready_flag, cfg_log>>

relocVars == <<rl_blob, rl_cfg, rl_at1, rl_at2, rl_direct>>

mmuVars == <<mmu_pt, mmu_ntables, mmu_last, mmu_calls>>

dtbVars == <<dtb_tree, dtb_mem, dtb_out>>

fwVars == <<fw_present, fw_dir, fw_search, fw_file, fw_ret>>

\* the state of the components modelled one call at a time
tblVars == <<create_last>>

irqVars == <<irq_log>>

conVars == <<con_pc, con_text, con_out, con_buf, con_n>>

preVars == <<bs_pc, bs_result, bs_s, bs_draws, svc_buf, svc_n, alloc_overlap>>

miVars == <<mi_pc, mi_addr, mi_layout>>

pmVars == <<pm_mapped, pm_regions, pm_last, pm_calls, pm_procs, pm_count>>

drawVars == <<drawers>>

auxVars == <<fwVars, tblVars, irqVars, conVars, preVars, miVars, pmVars, drawVars>>

auxOtherThanFw == <<tblVars, irqVars, conVars, preVars, miVars, pmVars, drawVars>>
auxOtherThanTbl == <<fwVars, irqVars, conVars, preVars, miVars, pmVars, drawVars>>
auxOtherThanIrq == <<fwVars, tblVars, conVars, preVars, miVars, pmVars, drawVars>>
auxOtherThanCon == <<fwVars, tblVars, irqVars, preVars, miVars, pmVars, drawVars>>
auxOtherThanPre == <<fwVars, tblVars, irqVars, conVars, miVars, pmVars, drawVars>>
auxOtherThanMi == <<fwVars, tblVars, irqVars, conVars, preVars, pmVars, drawVars>>
auxOtherThanPm == <<fwVars, tblVars, irqVars, conVars, preVars, miVars, drawVars>>
auxOtherThanDraw == <<fwVars, tblVars, irqVars, conVars, preVars, miVars, pmVars>>

\* the kernel's variables other than PSTATE.I
kernOtherThanMask == <<processes, current_proc, proc_count, cpuPos, cpuEL, timerOn,
                       timerPending, panicked, panicProc, restoredAfterPanic,
                       lastRestore, switchLog, lastSvc, svcOut, panicOut>>

extVars == <<gpuVars, relocVars, mmuVars, dtbVars, auxVars>>

\* the parts of extVars the graphics bring-up, the relocator, the MMU
\* builder and the device-tree parser leave alone
otherThanGpu == <<relocVars, mmuVars, dtbVars, auxVars>>
otherThanReloc == <<gpuVars, mmuVars, dtbVars, auxVars>>
otherThanMmu == <<gpuVars, relocVars, dtbVars, auxVars>>
otherThanDtb == <<gpuVars, relocVars, mmuVars, auxVars>>
otherThanAux == <<gpuVars, relocVars, mmuVars, dtbVars>>

vars == <<allocVars, kernVars, vqVars, vqBufVars, extVars>>

-----------------------------------------------------------------------------
(* Bounds of the model *)

\* the 64-bit word of the source, scaled: Word stands for 2^64
WordPages == 16
\* the transient region, 0x500000 bytes (1280 pages) in the source, scaled
TempRegionPages == 3
\* the permanent region, (heap_limit - temp_start) in the linker script, scaled
PermRegionPages == 3
\* number of allocator calls explored
MaxAllocOps == 5
\* number of vgp_send_command calls explored
MaxCommands == 3

-----------------------------------------------------------------------------
(* kernel/ram_e.c : allocators *)

PAGE == 4096
Word == WordPages * PAGE
U64(x) == x % Word

\* linker symbols
heap_bottom == 8192
temp_start == heap_bottom + TempRegionPages * PAGE
heap_limit == temp_start + PermRegionPages * PAGE

NULL == 0
PageAddrs == {p * PAGE : p \in 0 .. (WordPages - 1)}

\* (size + 0xFFF) & ~0xFFF in 64-bit arithmetic
AlignUp(x) == LET y == U64(x + 4095) IN y - (y % PAGE)

\* the mathematical rounding the claims speak of (no wrap)
RoundUp(x) == ((x + 4095) \div PAGE) * PAGE

CurAlloc == [nt |-> next_free_temp_memory, np |-> next_free_perm_memory,
             fl |-> temp_free_list, hdr |-> heapHdr]

\* The free-list walk of talloc: curr is the block under inspection, prev the
\* block whose next field points at it (NULL: the list head does).  fuel bounds
\* the walk; a walk that outlives every block is on a cycle and never ends.
RECURSIVE Walk(_, _, _, _, _)
Walk(a, curr, prev, size, fuel) ==
    IF curr = NULL THEN [how |-> "none", a |-> a, ret |-> NULL]
    ELSE IF fuel = 0 THEN [how |-> "hang", a |-> a, ret |-> NULL]
    ELSE IF a.hdr[curr].size >= size
         THEN [how |-> "list",
               a |-> IF prev = NULL
                     THEN [a EXCEPT !.fl = a.hdr[curr].next]
                     ELSE [a EXCEPT !.hdr[prev].next = a.hdr[curr].next],
               ret |-> curr]
         ELSE Walk(a, a.hdr[curr].next, curr, size, fuel - 1)

\* talloc up to the call of panic_with_info: how = "list" (served from the free
\* list), "bump" (served by the bump pointer), "overflow" (panic_with_info is
\* called), "hang" (the walk never ends).
talloc_check(a, size) == U64(a.nt + size) > temp_start
tallocCore(a, req) ==
    LET size == AlignUp(req)
        w == Walk(a, a.fl, NULL, size, WordPages)
    IN  IF w.how \in {"list", "hang"} THEN w
        ELSE IF talloc_check(a, size)
             THEN [how |-> "overflow", a |-> a, ret |-> NULL]
             ELSE [how |-> "bump", a |-> [a EXCEPT !.nt = U64(a.nt + size)], ret |-> a.nt]

\* a free that hands the topmost block back to the bump pointer
temp_free_rewind(a, ptr, req) ==
    LET size == AlignUp(req)
    IN  [a EXCEPT !.hdr[ptr] = [next |-> a.fl, size |-> size], !.fl = ptr,
                  !.nt = IF U64(ptr + size) = a.nt THEN ptr ELSE a.nt]

temp_free_core(a, ptr, req) ==
    LET size == AlignUp(req)
    IN  [a EXCEPT !.hdr[ptr] = [next |-> a.fl, size |-> size], !.fl = ptr]

\* palloc up to the call of panic_with_info.  The pointer is aligned before
\* the bound is tested, so an overflowing call leaves it aligned.
palloc_check(np, aligned_size) == U64(np + aligned_size) > heap_limit
pallocCore(a, req) ==
    LET aligned_size == AlignUp(req)
        np1 == AlignUp(a.np)
        a1 == [a EXCEPT !.np = np1]
    IN  IF palloc_check(np1, aligned_size)
        THEN [how |-> "overflow", a |-> a1, ret |-> NULL]
        ELSE [how |-> "bump", a |-> [a1 EXCEPT !.np = U64(np1 + aligned_size)], ret |-> np1]

\* string_from_hex for each of n %h conversions: talloc(18), then temp_free(.., 18)
RECURSIVE hex_allocs(_, _)
hex_allocs(a, n) ==
    IF n = 0 THEN [how |-> "ok", a |-> a]
    ELSE LET r == tallocCore(a, 18)
         IN  IF r.how \in {"overflow", "hang"} THEN [how |-> r.how, a |-> r.a]
             ELSE hex_allocs(temp_free_core(r.a, r.ret, 18), n - 1)

\* the allocator calls of string_format_args on a format with nhex %h
\* conversions: the 256-byte buffer, which the function returns to its caller,
\* and the 18-byte buffers.  how = "ok", or the way a talloc failed to return.
string_format_alloc(a, nhex) ==
    LET r1 == tallocCore(a, 256)
    IN  IF r1.how \in {"overflow", "hang"} THEN [how |-> r1.how, a |-> r1.a]
        ELSE hex_allocs(r1.a, nhex)

\* kernel/exception_handler.c, panic_with_info: the allocator calls of its
\* string_format("...%s...%h...", msg, info).  The result string is never
\* freed.  A talloc that overflows in here calls panic_with_info again with
\* the allocator as it is, so the recursion changes nothing more.
panic_with_info_alloc(a) == string_format_alloc(a, 1).a

NoCall == [op |-> "none", req |-> 0, ptr |-> NULL, ret |-> NULL, how |-> "none"]

\* request sizes: within a page, just over a page, and the ways a 64-bit size
\* wraps: the addition wraps (0xFFFFFFFFFFFFF000), the addition wraps to
\* exactly 0 (2^64 - heap_bottom), the rounding wraps (2^64 - 1)
ReqSizes == {256, PAGE + 1, Word - PAGE, Word - heap_bottom, Word - 1}

SetAlloc(a) ==
    /\ next_free_temp_memory' = a.nt
    /\ next_free_perm_memory' = a.np
    /\ temp_free_list' = a.fl
    /\ heapHdr' = a.hdr

talloc(req) ==
    /\ allocOps < MaxAllocOps
    /\ LET r == tallocCore(CurAlloc, req)
       IN  /\ SetAlloc(IF r.how = "overflow" THEN panic_with_info_alloc(r.a) ELSE r.a)
           /\ live' = IF r.how \in {"list", "bump"}
                      THEN live \cup {[addr |-> r.ret, size |-> req]}
                      ELSE live
           /\ lastCall' = [op |-> "talloc", req |-> req, ptr |-> NULL,
                           ret |-> r.ret, how |-> r.how]
    /\ prevCall' = lastCall
    /\ allocOps' = allocOps + 1

\* tfree is applied to a block talloc handed out, with the size it was
\* requested with
temp_free(b) ==
    /\ allocOps < MaxAllocOps
    /\ b \in live
    /\ SetAlloc(temp_free_core(CurAlloc, b.addr, b.size))
    /\ live' = live \ {b}
    /\ lastCall' = [op |-> "tfree", req |-> b.size, ptr |-> b.addr,
                    ret |-> NULL, how |-> "free"]
    /\ prevCall' = lastCall
    /\ allocOps' = allocOps + 1

palloc(req) ==
    /\ allocOps < MaxAllocOps
    /\ LET r == pallocCore(CurAlloc, req)
       IN  /\ SetAlloc(IF r.how = "overflow" THEN panic_with_info_alloc(r.a) ELSE r.a)
           /\ lastCall' = [op |-> "palloc", req |-> req, ptr |-> NULL,
                           ret |-> r.ret, how |-> r.how]
    /\ live' = live
    /\ prevCall' = lastCall
    /\ allocOps' = allocOps + 1

AllocInit ==
    /\ next_free_temp_memory = heap_bottom
    /\ next_free_perm_memory = temp_start
    /\ temp_free_list = NULL
    /\ heapHdr = [p \in PageAddrs |-> [next |-> NULL, size |-> 0]]
    /\ live = {}
    /\ lastCall = NoCall
    /\ prevCall = NoCall
    /\ allocOps = 0

AllocNext ==
    \/ \E req \in ReqSizes : talloc(req) /\ UNCHANGED <<kernVars, vqVars, vqBufVars, extVars>>
    \/ \E b \in live : temp_free(b) /\ UNCHANGED <<kernVars, vqVars, vqBufVars, extVars>>
    \/ \E req \in ReqSizes : palloc(req) /\ UNCHANGED <<kernVars, vqVars, vqBufVars, extVars>>

-----------------------------------------------------------------------------
(* kernel/kstring.c : formatting.  A string is a sequence of one-character  *)
(* strings; an argument is an integer (%i: its value as an int, %h: its    *)
(* value), a character (%c) or a string (%s).                              *)

BufMax == 255

DecDigit(d) == <<"0", "1", "2", "3", "4", "5", "6", "7", "8", "9">>[d + 1]
HexDigit(d) == <<"0", "1", "2", "3", "4", "5", "6", "7", "8", "9",
                 "A", "B", "C", "D", "E", "F">>[d + 1]

Min(a, b) == IF a < b THEN a ELSE b

RECURSIVE Reverse(_)
Reverse(s) == IF s = <<>> THEN <<>> ELSE Append(Reverse(Tail(s)), Head(s))

\* buf[len++] = c for each character of s while len < 255
AppendCapped(buf, s) ==
    buf \o SubSeq(s, 1, Min(Len(s), IF Len(buf) >= BufMax THEN 0 ELSE BufMax - Len(buf)))

\* string_from_hex: "0x" and the nibbles from the first non-zero one on
RECURSIVE HexNibbles(_)
HexNibbles(v) == IF v < 16 THEN <<HexDigit(v)>>
                 ELSE Append(HexNibbles(v \div 16), HexDigit(v % 16))
string_from_hex(value) == <<"0", "x">> \o HexNibbles(value)

\* the %i branch: the digits least significant first in temp (at most 20),
\* the sign appended when the output so far is shorter than 20, then temp
\* copied out backwards
RECURSIVE DecTemp(_, _)
DecTemp(val, temp) ==
    LET t == Append(temp, DecDigit(val % 10))
    IN  IF (val \div 10) # 0 /\ Len(t) < 20 THEN DecTemp(val \div 10, t) ELSE t
format_int(buf, val) ==
    LET negative == val < 0
        mag == IF negative THEN 0 - val ELSE val
        t1 == DecTemp(mag, <<>>)
        t2 == IF negative /\ Len(buf) < 20 THEN Append(t1, "-") ELSE t1
    IN  AppendCapped(buf, Reverse(t2))

\* the loop of string_format_args from index i (1-based) on; nhex counts the
\* calls of string_from_hex (each a talloc(18) and a temp_free)
RECURSIVE FormatFrom(_, _, _, _, _, _)
FormatFrom(fmt, i, args, arg_index, arg_count, out) ==
    IF i > Len(fmt) \/ Len(out.buf) >= BufMax THEN out
    ELSE IF fmt[i] = "%" /\ i + 1 <= Len(fmt)
         THEN IF arg_index >= arg_count THEN out
              ELSE LET c == fmt[i + 1]
                       a == args[arg_index + 1]
                   IN  IF c = "h"
                       THEN FormatFrom(fmt, i + 2, args, arg_index + 1, arg_count,
                                [buf |-> AppendCapped(out.buf, string_from_hex(a)),
                                 nhex |-> out.nhex + 1])
                       ELSE IF c = "c"
                       THEN FormatFrom(fmt, i + 2, args, arg_index + 1, arg_count,
                                [out EXCEPT !.buf = Append(out.buf, a)])
                       ELSE IF c = "s"
                       THEN FormatFrom(fmt, i + 2, args, arg_index + 1, arg_count,
                                [out EXCEPT !.buf = AppendCapped(out.buf, a)])
                       ELSE IF c = "i"
                       THEN FormatFrom(fmt, i + 2, args, arg_index + 1, arg_count,
                                [out EXCEPT !.buf = format_int(out.buf, a)])
                       ELSE FormatFrom(fmt, i + 2, args, arg_index, arg_count,
                                [out EXCEPT !.buf = out.buf \o <<"%", c>>])
         ELSE FormatFrom(fmt, i + 1, args, arg_index, arg_count,
                  [out EXCEPT !.buf = Append(out.buf, fmt[i])])

string_format_args(fmt, args, arg_count) ==
    FormatFrom(fmt, 1, args, 0, arg_count, [buf |-> <<>>, nhex |-> 0])

\* the allocator calls of kprintf_args_raw: string_format_args, then
\* temp_free(s.data, 256)
format_alloc(a, nhex) ==
    LET f == string_format_alloc(a, nhex)
    IN  IF f.how = "ok"
        THEN [how |-> "ok", a |-> temp_free_core(f.a, tallocCore(a, 256).ret, 256)]
        ELSE f

\* kernel/console/kio.c, kprintf_args_raw: the UART output of one print
kprintf_args_raw(fmt, args, arg_count) ==
    string_format_args(fmt, args, arg_count).buf \o <<"\n">>

-----------------------------------------------------------------------------
(* kernel/process/scheduler.c, kernel/gic.c : process table, scheduler, IRQ *)

MAX_PROCS == 16
\* processes created in the explored runs
MaxCreated == 3

SPSR_EL1H_MASKED == 965     \* 0x3C5
SPSR_EL0 == 0

Procs == 0 .. (MAX_PROCS - 1)

BootPos == [k |-> "boot", i |-> 0]
HaltPos == [k |-> "halt", i |-> 0]
NoPos == [k |-> "none", i |-> 0]
BodyPos(i) == [k |-> "proc", i |-> i]

\* PSTATE after eret with this SPSR: the I bit (bit 7) and the level M[3:2]
SpsrMasksIrq(spsr) == ((spsr \div 128) % 2) = 1
SpsrEL(spsr) == (spsr \div 4) % 4

\* a walk that takes the entry it starts on whatever its state
switch_walk_noskip(procs, cur, count, next_proc) == next_proc

\* switch_proc minus restore_context: the index it assigns to current_proc,
\* or -1 when it returns without switching
RECURSIVE switch_walk(_, _, _, _)
switch_walk(procs, cur, count, next_proc) ==
    IF procs[next_proc].state = "READY" THEN next_proc
    ELSE LET n == (next_proc + 1) % count
         IN  IF n = cur THEN -1 ELSE switch_walk(procs, cur, count, n)

switch_proc_stay(procs, cur, count) ==
    IF count = 0 THEN -1 ELSE switch_walk(procs, cur, count, cur % count)

switch_proc_select(procs, cur, count) ==
    IF count = 0 THEN -1 ELSE switch_walk(procs, cur, count, (cur + 1) % count)

PushLog(log, v, n) ==
    LET l == Append(log, v)
    IN  IF Len(l) > n THEN SubSeq(l, Len(l) - n + 1, Len(l)) ELSE l

\* switch_proc(reason) on the table procs.  retPos, retEL, retMasked: where the
\* caller's return leads when switch_proc returns without switching.
switch_proc(procs, retPos, retEL, retMasked) ==
    LET sel == switch_proc_select(procs, current_proc, proc_count)
    IN  /\ processes' = procs
        /\ IF sel = -1
           THEN /\ current_proc' = current_proc
                /\ cpuPos' = retPos
                /\ cpuEL' = retEL
                /\ irqMasked' = retMasked
                /\ UNCHANGED <<lastRestore, switchLog, restoredAfterPanic>>
           ELSE \* restore_context(&processes[current_proc]): eret to its pc
                \* with PSTATE taken from its spsr
                /\ current_proc' = sel
                /\ cpuPos' = procs[sel].pc
                /\ cpuEL' = SpsrEL(procs[sel].spsr)
                /\ irqMasked' = SpsrMasksIrq(procs[sel].spsr)
                /\ lastRestore' = [valid |-> TRUE, proc |-> sel,
                                   masked |-> SpsrMasksIrq(procs[sel].spsr)]
                /\ switchLog' = PushLog(switchLog, sel, proc_count)
                /\ restoredAfterPanic' = (restoredAfterPanic \/ panicked)

(* kernel/exception_handler.c : the panic paths *)

\* uart.c, uart_puthex: "0x" and the nibbles from the first non-zero one on
uart_puthex(value) == <<"0", "x">> \o HexNibbles(value)

\* panic_with_info(msg, info), entered with PSTATE.I = masked and no display
\* driver ready (gpu_clear, gpu_get_char_size and gpu_draw_string return at
\* once).  string_format allocates; when one of its tallocs overflows,
\* panic_with_info is entered again and again and nothing is printed.
\* Otherwise the message goes out through uart_raw_puts and uart_puthex;
\* uart_puthex emits each digit through uart_putc, which ends with
\* enable_interrupt(), and ends with enable_interrupt() itself: the halt loop
\* is entered with PSTATE.I clear.
panic_with_info(a, msg, info, masked) ==
    LET f == string_format_alloc(a, 1)
    IN  /\ SetAlloc(f.a)
        /\ panicked' = TRUE
        /\ panicProc' = IF panicked THEN panicProc ELSE current_proc
        /\ cpuPos' = HaltPos
        /\ cpuEL' = 1
        /\ IF f.how = "ok"
           THEN /\ panicOut' = <<"*** CRAYON DOESN'T DRAW ANYMORE ***", msg, "\n",
                                 "Additional info: ">> \o uart_puthex(info)
                                 \o <<"\n", "System Halted">>
                /\ irqMasked' = FALSE
           ELSE /\ panicOut' = panicOut
                /\ irqMasked' = masked

\* panic(msg): uart_raw_puts only; PSTATE.I stays as the caller has it
panic(msg) ==
    /\ panicked' = TRUE
    /\ panicProc' = IF panicked THEN panicProc ELSE current_proc
    /\ panicOut' = <<"*** CRAYON DOESN'T DRAW ANYMORE ***">> \o msg \o <<"System Halted">>
    /\ cpuPos' = HaltPos

\* a talloc called at EL1 with PSTATE.I = masked does not return: it overflows
\* (panic_with_info) or walks a cyclic free list for ever
talloc_no_return(f, masked) ==
    IF f.how = "overflow"
    THEN panic_with_info(f.a, "Temporary allocator overflow", f.a.nt, masked)
    ELSE /\ SetAlloc(f.a)
         /\ cpuPos' = HaltPos
         /\ cpuEL' = 1
         /\ irqMasked' = masked
         /\ UNCHANGED <<panicked, panicProc, panicOut>>

-----------------------------------------------------------------------------
(* boot code, process creation, timer and IRQ *)

Running == cpuPos.k \in {"boot", "proc"}

\* the allocator calls of a run of formatted prints, ns[i] the number of %h
\* conversions of the i-th
RECURSIVE prints_alloc(_, _)
prints_alloc(a, ns) ==
    IF ns = <<>> THEN [how |-> "ok", a |-> a]
    ELSE LET f == format_alloc(a, Head(ns))
         IN  IF f.how = "ok" THEN prints_alloc(f.a, Tail(ns)) ELSE f

\* kprocess_loader.c, create_kernel_process.  init_process hands out the next
\* free record of the table; the stack allocation is taken to succeed; the
\* two kprintf_raw lines format with two %h each and leave PSTATE.I alone.
create_kernel_process_run ==
    /\ cpuPos.k = "boot"
    /\ proc_count < MAX_PROCS
    /\ proc_count' = proc_count + 1
    /\ switchLog' = <<>>
    /\ LET f == prints_alloc(CurAlloc, <<2, 2>>)
       IN  IF f.how = "ok"
           THEN /\ SetAlloc(f.a)
                /\ processes' = [processes EXCEPT ![proc_count] =
                                    [state |-> "READY", spsr |-> SPSR_EL1H_MASKED,
                                     pc |-> BodyPos(proc_count), id |-> proc_count]]
                /\ UNCHANGED <<cpuPos, cpuEL, irqMasked, panicked, panicProc, panicOut>>
           ELSE /\ talloc_no_return(f, irqMasked)
                /\ UNCHANGED processes
    /\ UNCHANGED <<current_proc, timerOn, timerPending, restoredAfterPanic,
                   lastRestore, lastSvc, svcOut>>
    /\ UNCHANGED <<live, lastCall, prevCall, allocOps, vqVars, vqBufVars>>

create_kernel_process ==
    /\ proc_count < MaxCreated
    /\ create_kernel_process_run
    /\ UNCHANGED extVars

\* create_process without the test of line 161
create_process_unchecked ==
    /\ cpuPos.k = "boot"
    /\ LET f == prints_alloc(CurAlloc, <<2, 2, 0, 1, 2, 2>>)
       IN  IF f.how = "ok"
           THEN /\ SetAlloc(f.a)
                /\ processes' = [i \in Procs |->
                                    IF i = proc_count
                                    THEN [state |-> "READY", spsr |-> SPSR_EL0,
                                          pc |-> BodyPos(proc_count), id |-> proc_count]
                                    ELSE processes[i]]
                /\ proc_count' = proc_count + 1
                /\ switchLog' = <<>>
                /\ irqMasked' = FALSE
                /\ UNCHANGED <<cpuPos, cpuEL, panicked, panicProc, panicOut>>
           ELSE /\ talloc_no_return(f, TRUE)
                /\ UNCHANGED <<processes, proc_count, switchLog>>
    /\ UNCHANGED <<current_proc, timerOn, timerPending, restoredAfterPanic,
                   lastRestore, lastSvc, svcOut>>
    /\ UNCHANGED <<live, lastCall, prevCall, allocOps, vqVars, vqBufVars>>

\* scheduler.c, create_process: a user process.  With a full table it returns
\* 0 before anything else; otherwise the alloc_proc_mem calls are taken to
\* succeed, and its printf lines and those of relocate_code go through
\* kprintf_args, which ends with enable_interrupt().
create_process_run ==
    /\ cpuPos.k = "boot"
    /\ IF proc_count >= MAX_PROCS
       THEN UNCHANGED <<kernVars, allocVars>>
       ELSE LET f == prints_alloc(CurAlloc, <<2, 2, 0, 1, 2, 2>>)
            IN  IF f.how = "ok"
                THEN /\ SetAlloc(f.a)
                     /\ processes' = [processes EXCEPT ![proc_count] =
                                         [state |-> "READY", spsr |-> SPSR_EL0,
                                          pc |-> BodyPos(proc_count), id |-> proc_count]]
                     /\ proc_count' = proc_count + 1
                     /\ switchLog' = <<>>
                     /\ irqMasked' = FALSE
                     /\ UNCHANGED <<cpuPos, cpuEL, panicked, panicProc, panicOut>>
                ELSE /\ talloc_no_return(f, TRUE)
                     /\ UNCHANGED <<processes, proc_count, switchLog>>
    /\ UNCHANGED <<current_proc, timerOn, timerPending, restoredAfterPanic,
                   lastRestore, lastSvc, svcOut>>
    /\ UNCHANGED <<live, lastCall, prevCall, allocOps, vqVars, vqBufVars>>

create_process ==
    /\ proc_count < MaxCreated
    /\ create_process_run
    /\ UNCHANGED extVars

\* kernel.c, kernel_main: timer_init(1000); printf("Test timer done");
\* enable_interrupt()
kernel_main_timer ==
    /\ cpuPos.k = "boot"
    /\ ~timerOn
    /\ timerOn' = TRUE
    /\ LET f == format_alloc(CurAlloc, 0)
       IN  IF f.how = "ok"
           THEN /\ SetAlloc(f.a)
                /\ irqMasked' = FALSE
                /\ UNCHANGED <<cpuPos, cpuEL, panicked, panicProc, panicOut>>
           ELSE talloc_no_return(f, TRUE)
    /\ UNCHANGED <<processes, current_proc, proc_count, timerPending,
                   restoredAfterPanic, lastRestore, switchLog, lastSvc, svcOut>>
    /\ UNCHANGED <<live, lastCall, prevCall, allocOps, vqVars, vqBufVars, extVars>>

\* scheduler.c, start_scheduler: disable_interrupt(); timer_init(10);
\* switch_proc(YIELD).  With an empty table it returns to kernel_main.
start_scheduler ==
    /\ cpuPos.k = "boot"
    /\ timerOn' = TRUE
    /\ switch_proc(processes, cpuPos, cpuEL, TRUE)
    /\ UNCHANGED <<proc_count, timerPending, panicked, panicProc, lastSvc, svcOut, panicOut>>
    /\ UNCHANGED <<allocVars, vqVars, vqBufVars, extVars>>

IRQ_TIMER == 30

\* one thing irq_el1_handler does: v is the record written, the IRQ id read
\* or written, or the value current_proc has when switch_proc is left
IrqStep(op, v) == [op |-> op, v |-> v]

\* the timer expires: IRQ 30 becomes pending
timer_fire ==
    /\ timerOn /\ ~timerPending
    /\ timerPending' = TRUE
    /\ UNCHANGED <<processes, current_proc, proc_count, cpuPos, cpuEL, irqMasked,
                   timerOn, panicked, panicProc, restoredAfterPanic, lastRestore,
                   switchLog, lastSvc, svcOut, panicOut>>
    /\ UNCHANGED <<allocVars, vqVars, vqBufVars, extVars>>

\* gic.c, irq_el1_handler, entered when IRQ 30 is pending and PSTATE.I is
\* clear: save_context_registers and save_return_address_interrupt write the
\* interrupted context into processes[current_proc]; GICC_IAR is read,
\* timer_reset re-arms the timer, GICC_EOIR is written, switch_proc(INTERRUPT).
\* When switch_proc returns, the trampoline erets to the interrupted code.
irq_el1_handler ==
    /\ timerPending /\ ~irqMasked
    /\ timerPending' = FALSE
    /\ switch_proc([processes EXCEPT ![current_proc].pc = cpuPos],
                   cpuPos, cpuEL, irqMasked)
    /\ irq_log' = << IrqStep("save_context", current_proc),
                     IrqStep("save_pc_interrupt", current_proc),
                     IrqStep("read GICC_IAR", IRQ_TIMER),
                     IrqStep("timer_reset", 0),
                     IrqStep("write GICC_EOIR", IRQ_TIMER),
                     IrqStep("switch_proc", current_proc') >>
    /\ UNCHANGED <<proc_count, timerOn, panicked, panicProc, lastSvc, svcOut, panicOut>>
    /\ UNCHANGED <<allocVars, vqVars, vqBufVars, otherThanAux, auxOtherThanIrq>>

-----------------------------------------------------------------------------
(* callers of the panic paths and of the console *)

\* bootscreen.c:143 and any other kernel code calling panic_with_info
call_panic_with_info ==
    /\ Running /\ cpuEL = 1
    /\ panic_with_info(CurAlloc, "Failed to load", 74565, irqMasked)
    /\ UNCHANGED <<live, lastCall, prevCall, allocOps, vqVars, vqBufVars, extVars>>
    /\ UNCHANGED <<processes, current_proc, proc_count, timerOn, timerPending,
                   restoredAfterPanic, lastRestore, switchLog, lastSvc, svcOut>>

\* sync_el1_handler, fiq_el1_handler, error_el1_handler -> handle_exception:
\* taking the exception sets PSTATE.I; string_format builds the message
\* (three %h); panic prints it
FatalTraps == {"SYNC EXCEPTION", "FIQ EXCEPTION\n", "ERROR EXCEPTION\n"}
handle_exception(type) ==
    /\ Running
    /\ LET f == string_format_alloc(CurAlloc, 3)
       IN  IF f.how = "ok"
           THEN /\ SetAlloc(f.a)
                /\ panic(<<type, " \nESR_EL1: ", "\nELR_EL1: ", "\n,FAR_EL1: ">>)
                /\ cpuEL' = 1
                /\ irqMasked' = TRUE
           ELSE talloc_no_return(f, TRUE)
    /\ UNCHANGED <<live, lastCall, prevCall, allocOps, vqVars, vqBufVars, extVars>>
    /\ UNCHANGED <<processes, current_proc, proc_count, timerOn, timerPending,
                   restoredAfterPanic, lastRestore, switchLog, lastSvc, svcOut>>

\* kio.c, kprintf_args called by kernel code (boot code, a kernel process)
\* with nhex %h conversions: disable_interrupt(); kprintf_args_raw(...);
\* enable_interrupt()
kprintf_args(nhex) ==
    /\ Running /\ cpuEL = 1
    /\ LET f == format_alloc(CurAlloc, nhex)
       IN  IF f.how = "ok"
           THEN /\ SetAlloc(f.a)
                /\ irqMasked' = FALSE
                /\ UNCHANGED <<cpuPos, cpuEL, panicked, panicProc, panicOut>>
           ELSE talloc_no_return(f, TRUE)
    /\ UNCHANGED <<live, lastCall, prevCall, allocOps, vqVars, vqBufVars, extVars>>
    /\ UNCHANGED <<processes, current_proc, proc_count, timerOn, timerPending,
                   restoredAfterPanic, lastRestore, switchLog, lastSvc, svcOut>>

\* ram_e.c, talloc called by kernel code with a request of req bytes, run to
\* its return or to the point it never returns from: served from the free
\* list or by the bump pointer, or line 149 calls panic_with_info with the
\* pointer as it stands
talloc_kernel_body(req) ==
    /\ LET r == tallocCore(CurAlloc, req)
       IN  /\ IF r.how \in {"list", "bump"}
              THEN /\ SetAlloc(r.a)
                   /\ UNCHANGED <<cpuPos, cpuEL, irqMasked, panicked, panicProc, panicOut>>
              ELSE talloc_no_return([how |-> r.how, a |-> r.a], irqMasked)
           /\ live' = IF r.how \in {"list", "bump"}
                      THEN live \cup {[addr |-> r.ret, size |-> req]}
                      ELSE live
           /\ lastCall' = [op |-> "talloc", req |-> req, ptr |-> NULL,
                           ret |-> r.ret, how |-> r.how]

talloc_kernel(req) ==
    /\ Running /\ cpuEL = 1
    /\ allocOps < MaxAllocOps
    /\ talloc_kernel_body(req)
    /\ prevCall' = lastCall
    /\ allocOps' = allocOps + 1
    /\ UNCHANGED <<vqVars, vqBufVars, extVars>>
    /\ UNCHANGED <<processes, current_proc, proc_count, timerOn, timerPending,
                   restoredAfterPanic, lastRestore, switchLog, lastSvc, svcOut>>

\* temp_free called by kernel code on a block talloc handed out
temp_free_kernel(b) ==
    /\ Running /\ cpuEL = 1
    /\ temp_free(b)
    /\ UNCHANGED <<kernVars, vqVars, vqBufVars, extVars>>

\* the sizes kernel code asks for: a string buffer, just over a page, and the
\* whole transient region
KernelSizes == {256, PAGE + 1, TempRegionPages * PAGE}

OomNext ==
    \/ \E req \in KernelSizes : talloc_kernel(req)
    \/ \E b \in live : temp_free_kernel(b)


-----------------------------------------------------------------------------
(* kernel/process/syscall.c : the EL0 synchronous handler *)

PRINTF_SYSCALL == 3

SvcCalls ==
    { [x8 |-> 3, x0 |-> <<"%", "i">>, x1 |-> <<42>>, x2 |-> 1],
      [x8 |-> 3, x0 |-> <<"%", "i">>, x1 |-> <<0 - 5>>, x2 |-> 1],
      [x8 |-> 3, x0 |-> <<"v", "=", "%", "h">>, x1 |-> <<255>>, x2 |-> 1],
      [x8 |-> 3, x0 |-> <<"%", "s", "%", "c">>, x1 |-> << <<"o", "k">>, "!" >>, x2 |-> 2],
      [x8 |-> 7, x0 |-> <<"%", "i">>, x1 |-> <<42>>, x2 |-> 1],
      [x8 |-> 0, x0 |-> <<>>, x1 |-> <<>>, x2 |-> 0] }

NoSvc == [valid |-> FALSE, x8 |-> 0, x0 |-> <<>>, x1 |-> <<>>, x2 |-> 0, resumed |-> FALSE]

\* sync_el0_handler_c, entered by an SVC executed at EL0 (the exception entry
\* sets PSTATE.I): it prints "Hello", prints the formatted line when x8 == 3,
\* and erets to the caller
sync_el0_handler_c(c) ==
    /\ cpuPos.k = "proc" /\ cpuEL = 0
    /\ LET f == IF c.x8 = PRINTF_SYSCALL
                THEN format_alloc(CurAlloc, string_format_args(c.x0, c.x1, c.x2).nhex)
                ELSE [how |-> "ok", a |-> CurAlloc]
       IN  /\ lastSvc' = [valid |-> TRUE, x8 |-> c.x8, x0 |-> c.x0, x1 |-> c.x1,
                          x2 |-> c.x2, resumed |-> (f.how = "ok")]
           /\ IF f.how = "ok"
              THEN /\ SetAlloc(f.a)
                   /\ svcOut' = <<"Hello">> \o
                                (IF c.x8 = PRINTF_SYSCALL
                                 THEN kprintf_args_raw(c.x0, c.x1, c.x2) ELSE <<>>)
                   /\ UNCHANGED <<cpuPos, cpuEL, irqMasked, panicked, panicProc, panicOut>>
              ELSE /\ svcOut' = <<"Hello">>
                   /\ talloc_no_return(f, TRUE)
    /\ UNCHANGED <<live, lastCall, prevCall, allocOps, vqVars, vqBufVars, extVars>>
    /\ UNCHANGED <<processes, current_proc, proc_count, timerOn, timerPending,
                   restoredAfterPanic, lastRestore, switchLog>>

-----------------------------------------------------------------------------

(* virtio_gpu_pci_driver.c : the command engine on queue 0, and the device *)

QUEUE_SIZE == 128
IdxMod == 65536             \* uint16_t idx
VIRTQ_DESC_F_NEXT == 1
VIRTQ_DESC_F_WRITE == 2

VIRTIO_STATUS_ACKNOWLEDGE == 1
VIRTIO_STATUS_DRIVER == 2
VIRTIO_STATUS_DRIVER_OK == 4
VIRTIO_STATUS_FEATURES_OK == 8

VIRTIO_GPU_CMD_GET_DISPLAY_INFO == 256          \* 0x0100
VIRTIO_GPU_CMD_RESOURCE_CREATE_2D == 257
VIRTIO_GPU_CMD_SET_SCANOUT == 258
VIRTIO_GPU_CMD_RESOURCE_FLUSH == 259
VIRTIO_GPU_CMD_TRANSFER_TO_HOST_2D == 260
VIRTIO_GPU_CMD_RESOURCE_ATTACH_BACKING == 262
VIRTIO_GPU_RESP_OK_NODATA == 4352               \* 0x1100
VIRTIO_GPU_MAX_SCANOUTS == 16

\* struct virtio_gpu_resp_display_info: pmodes[16] of {enabled, width, height}
Scanouts == 0 .. (VIRTIO_GPU_MAX_SCANOUTS - 1)
NoPmodes == [i \in Scanouts |-> [enabled |-> 0, width |-> 0, height |-> 0]]

\* avail->ring[avail->idx % 128] = 1: the chain published under a wrong head
avail_ring_store_head1(av) == [av EXCEPT !.ring[av.idx % QUEUE_SIZE] = 1]

\* avail->ring[avail->idx % 128] = 0
avail_ring_store(av) == [av EXCEPT !.ring[av.idx % QUEUE_SIZE] = 0]

\* avail->idx left as it is
avail_idx_keep(av) == av

\* avail->idx++ on a uint16_t
avail_idx_incr(av) == [av EXCEPT !.idx = (av.idx + 1) % IdxMod]

\* entry of vgp_send_command(cmd_addr, cmd_size, resp_addr, resp_size, ..., flags)
vgp_send_command_enter(flags, resp_addr) ==
    /\ vq_pc \in {"idle", "returned"}
    /\ vq_pc' = "desc0"
    /\ vq_flags' = flags
    /\ vq_resp' = resp_addr
    /\ entryUsed' = used.idx
    /\ vqCalls' = vqCalls + 1
    /\ UNCHANGED <<desc, avail, used, last_used_idx, notified, dev_last_avail, dev_head>>

\* a call by a caller that has filled the command buffer
vgp_send_command(flags) ==
    /\ vqCalls < MaxCommands
    /\ vgp_send_command_enter(flags, "VIRTQUEUE_RESP")
    /\ UNCHANGED <<cmdType, respBuf, dispInfoBuf, device_status, queue_enable>>
    /\ UNCHANGED <<allocVars, kernVars, extVars>>

\* desc[0] = {cmd_addr, cmd_size, flags, next = 1}
vsc_desc0 ==
    /\ vq_pc = "desc0"
    /\ desc' = [desc EXCEPT ![0] = [addr |-> "VIRTQUEUE_CMD", flags |-> vq_flags, next |-> 1]]
    /\ vq_pc' = "desc1"
    /\ UNCHANGED <<avail, used, vq_flags, last_used_idx, notified, dev_last_avail,
                   dev_head, entryUsed, vqCalls>>
    /\ UNCHANGED <<allocVars, kernVars, vqBufVars, extVars>>

\* desc[1] = {resp_addr, resp_size, VIRTQ_DESC_F_WRITE, next = 0}
vsc_desc1 ==
    /\ vq_pc = "desc1"
    /\ desc' = [desc EXCEPT ![1] = [addr |-> vq_resp, flags |-> VIRTQ_DESC_F_WRITE,
                                    next |-> 0]]
    /\ vq_pc' = "avail_ring"
    /\ UNCHANGED <<avail, used, vq_flags, last_used_idx, notified, dev_last_avail,
                   dev_head, entryUsed, vqCalls>>
    /\ UNCHANGED <<allocVars, kernVars, vqBufVars, extVars>>

vsc_avail_ring ==
    /\ vq_pc = "avail_ring"
    /\ avail' = avail_ring_store(avail)
    /\ vq_pc' = "avail_idx"
    /\ UNCHANGED <<desc, used, vq_flags, last_used_idx, notified, dev_last_avail,
                   dev_head, entryUsed, vqCalls>>
    /\ UNCHANGED <<allocVars, kernVars, vqBufVars, extVars>>

vsc_avail_idx ==
    /\ vq_pc = "avail_idx"
    /\ avail' = avail_idx_incr(avail)
    /\ vq_pc' = "notify"
    /\ UNCHANGED <<desc, used, vq_flags, last_used_idx, notified, dev_last_avail,
                   dev_head, entryUsed, vqCalls>>
    /\ UNCHANGED <<allocVars, kernVars, vqBufVars, extVars>>

\* the 16-bit store of 0 to the queue-0 notify address
vsc_notify ==
    /\ vq_pc = "notify"
    /\ notified' = TRUE
    /\ vq_pc' = "read_used"
    /\ UNCHANGED <<desc, avail, used, vq_flags, last_used_idx, dev_last_avail,
                   dev_head, entryUsed, vqCalls>>
    /\ UNCHANGED <<allocVars, kernVars, vqBufVars, extVars>>

\* uint16_t last_used_idx = used->idx
vsc_read_used ==
    /\ vq_pc = "read_used"
    /\ last_used_idx' = used.idx
    /\ vq_pc' = "spin"
    /\ UNCHANGED <<desc, avail, used, vq_flags, notified, dev_last_avail,
                   dev_head, entryUsed, vqCalls>>
    /\ UNCHANGED <<allocVars, kernVars, vqBufVars, extVars>>

\* while (last_used_idx == used->idx); last_used_idx = used->idx; return
vsc_spin_exit ==
    /\ vq_pc = "spin"
    /\ last_used_idx # used.idx
    /\ last_used_idx' = used.idx
    /\ vq_pc' = "returned"
    /\ UNCHANGED <<desc, avail, used, vq_flags, notified, dev_last_avail,
                   dev_head, entryUsed, vqCalls>>
    /\ UNCHANGED <<allocVars, kernVars, vqBufVars, extVars>>

\* the response the device gives to a command
DeviceResponds(type) ==
    IF type = VIRTIO_GPU_CMD_GET_DISPLAY_INFO THEN devScanouts ELSE VIRTIO_GPU_RESP_OK_NODATA

\* The device, once DRIVER_OK is set, the queue enabled and a notification
\* received, takes the next chain of the avail ring: it reads the command in
\* the head descriptor, writes its response into the device-writable
\* descriptor the head is chained to (if the head has the NEXT flag), and
\* writes the head into the next used element ...
device_take_chain ==
    /\ notified
    /\ (device_status \div VIRTIO_STATUS_DRIVER_OK) % 2 = 1
    /\ queue_enable = 1
    /\ dev_head = -1
    /\ dev_last_avail # avail.idx
    /\ LET head == avail.ring[dev_last_avail % QUEUE_SIZE]
           d0 == desc[head]
           chained == (d0.flags % 2 = VIRTQ_DESC_F_NEXT)
                      /\ d0.next \in DOMAIN desc
                      /\ (desc[d0.next].flags \div VIRTQ_DESC_F_WRITE) % 2 = 1
           to == IF chained THEN desc[d0.next].addr ELSE ""
       IN  /\ dev_head' = head
           /\ used' = [used EXCEPT !.ring[used.idx % QUEUE_SIZE] = head]
           /\ dispInfoBuf' = IF to = "VIRTQUEUE_DISP_INFO"
                                /\ cmdType = VIRTIO_GPU_CMD_GET_DISPLAY_INFO
                             THEN DeviceResponds(cmdType) ELSE dispInfoBuf
           /\ respBuf' = IF to = "VIRTQUEUE_RESP" THEN VIRTIO_GPU_RESP_OK_NODATA
                         ELSE respBuf
    /\ dev_last_avail' = (dev_last_avail + 1) % IdxMod
    /\ UNCHANGED <<desc, avail, vq_pc, vq_flags, last_used_idx, notified, entryUsed, vqCalls>>
    /\ UNCHANGED <<vq_resp, cmdType, device_status, queue_enable>>
    /\ UNCHANGED <<allocVars, kernVars, extVars>>

\* ... and then publishes it by incrementing used.idx
device_publish_used ==
    /\ dev_head # -1
    /\ used' = [used EXCEPT !.idx = (used.idx + 1) % IdxMod]
    /\ dev_head' = -1
    /\ notified' = (dev_last_avail # avail.idx)
    /\ UNCHANGED <<desc, avail, vq_pc, vq_flags, last_used_idx, dev_last_avail,
                   entryUsed, vqCalls>>
    /\ UNCHANGED <<allocVars, kernVars, vqBufVars, extVars>>

\* the queue after k completed commands (k = 0: after vgp_start)
VqInit(k) ==
    /\ desc = [i \in 0 .. 1 |-> [addr |-> "", flags |-> 0, next |-> 0]]
    /\ avail = [idx |-> k, ring |-> [i \in 0 .. (QUEUE_SIZE - 1) |-> 0]]
    /\ used = [idx |-> k, ring |-> [i \in 0 .. (QUEUE_SIZE - 1) |-> 0]]
    /\ vq_pc = "idle"
    /\ vq_flags = 0
    /\ last_used_idx = k
    /\ notified = FALSE
    /\ dev_last_avail = k
    /\ dev_head = -1
    /\ entryUsed = k
    /\ vqCalls = 0
    /\ vq_resp = "VIRTQUEUE_RESP"
    /\ cmdType = VIRTIO_GPU_CMD_RESOURCE_FLUSH
    /\ respBuf = 0

\* numbers of commands completed before the explored calls: none, and the
\* counts at which idx % 128 and the 16-bit idx wrap
StartIdx == {0, QUEUE_SIZE - 1, IdxMod - 1}

VqNext ==
    \/ \E flags \in {0, VIRTQ_DESC_F_NEXT} : vgp_send_command(flags)
    \/ vsc_desc0
    \/ vsc_desc1
    \/ vsc_avail_ring
    \/ vsc_avail_idx
    \/ vsc_notify
    \/ vsc_read_used
    \/ vsc_spin_exit
    \/ device_take_chain
    \/ device_publish_used

-----------------------------------------------------------------------------
(* kernel/fw/fw_cfg.c and ramfb_driver.c : the fw_cfg directory and rfb_init. *)
(* A 16- or 32-bit value is the tuple of its bytes, least significant byte   *)
(* first, which is the order a little-endian load finds them in memory.      *)

\* the 16-bit value left as the firmware stored it
keep16(x) == x
bswap16(x) == <<x[2], x[1]>>
bswap32(x) == <<x[4], x[3], x[2], x[1]>>
Val16(x) == x[1] + 256 * x[2]
Val32(x) == x[1] + 256 * x[2] + 65536 * x[3] + 16777216 * x[4]

\* the bytes the firmware stores for a big-endian field of value v
Be16(v) == <<v \div 256, v % 256>>
Be32(v) == <<v \div 16777216, (v \div 65536) % 256, (v \div 256) % 256, v % 256>>

\* strcmp of kstring.c: a bool, true when the strings differ
RECURSIVE strcmp(_, _)
strcmp(a, b) ==
    IF a # <<>> /\ b # <<>>
    THEN IF Head(a) # Head(b) THEN TRUE ELSE strcmp(Tail(a), Tail(b))
    ELSE ~(a = <<>> /\ b = <<>>)

string_equals(a, b) == (strcmp(a, b) = FALSE)

Name_ramfb == <<"e", "t", "c", "/", "r", "a", "m", "f", "b">>
Name_rsdp == <<"e", "t", "c", "/", "a", "c", "p", "i">>
Name_loader == <<"e", "t", "c", "/", "t", "l">>

\* a directory entry as the firmware stores it
FwEntry(name, selector, size) == [name |-> name, selector |-> Be16(selector), size |-> Be32(size)]

\* the loop of fw_find_file over the entries the DMA reads deliver one by one
RECURSIVE fw_find_loop(_, _, _, _, _)
fw_find_loop(dir, search, i, count, file) ==
    IF i >= count \/ i >= Len(dir) THEN [found |-> FALSE, file |-> file]
    ELSE LET f == [name |-> dir[i + 1].name,
                   size |-> Val32(bswap32(dir[i + 1].size)),
                   selector |-> Val16(bswap16(dir[i + 1].selector))]
         IN  IF string_equals(f.name, search) THEN [found |-> TRUE, file |-> f]
             ELSE fw_find_loop(dir, search, i + 1, count, f)

\* fw_find_file(search, file): file is the caller's struct as it was on entry
fw_find_file(present, dir, search, file) ==
    IF ~present THEN [found |-> FALSE, file |-> file]
    ELSE LET count == Val32(bswap32(Be32(Len(dir))))
         IN  fw_find_loop(dir, search, 0, count, file)

\* rfb_init(w, h): its return value, the framebuffer it allocates and the
\* selectors it writes to by DMA (fw_cfg_dma_write returns at once without fw_cfg)
rfb_init(w, h, present, dir, file0) ==
    LET r == fw_find_file(present, dir, Name_ramfb, file0)
    IN  IF r.file.selector = 0
        THEN [ret |-> FALSE, fb |-> -1, dma |-> <<>>]
        ELSE [ret |-> TRUE, fb |-> w * h * 4,
              dma |-> IF present THEN <<r.file.selector>> ELSE <<>>]

-----------------------------------------------------------------------------
(* graphics.c, virtio_gpu_pci_driver.c : gpu_init and vgp_init.  The console *)
(* output of these functions and the addresses palloc returns are left out;  *)
(* the size of the framebuffer request is kept.                              *)

SetBit(x, b) == IF (x \div b) % 2 = 1 THEN x ELSE x + b

\* vgp_start: the status byte and queue_enable it leaves behind
vgp_start(accepts) ==
    LET s0 == 0
        s1 == SetBit(s0, VIRTIO_STATUS_ACKNOWLEDGE)
        s2 == SetBit(s1, VIRTIO_STATUS_DRIVER)
        s3 == IF accepts THEN SetBit(s2, VIRTIO_STATUS_FEATURES_OK) ELSE s2
    IN  IF (s3 \div VIRTIO_STATUS_FEATURES_OK) % 2 = 0
        THEN [status |-> s3, enable |-> 0]
        ELSE [status |-> SetBit(s3, VIRTIO_STATUS_DRIVER_OK), enable |-> 1]

\* one access of vgp_start to a register of common_cfg
CfgAccess(op, reg, val) == [op |-> op, reg |-> reg, val |-> val]

\* vgp_start: its accesses to common_cfg in program order.  The features word
\* and the queue size are read and written back unchanged and their value is
\* left out (0); the three ring addresses are the first three pages palloc
\* hands out (1, 2, 3).  The read of line 259 returns the status byte with
\* FEATURES_OK kept or cleared by the device.
vgp_start_accesses(accepts) ==
    LET s1 == SetBit(0, VIRTIO_STATUS_ACKNOWLEDGE)
        s2 == SetBit(s1, VIRTIO_STATUS_DRIVER)
        w3 == SetBit(s2, VIRTIO_STATUS_FEATURES_OK)
        s3 == IF accepts THEN w3 ELSE s2
        negotiate ==
            << CfgAccess("write", "device_status", 0),
               CfgAccess("read", "device_status", 0),
               CfgAccess("write", "device_status", s1),
               CfgAccess("write", "device_status", s2),
               CfgAccess("write", "device_feature_select", 0),
               CfgAccess("read", "device_feature", 0),
               CfgAccess("write", "driver_feature_select", 0),
               CfgAccess("write", "driver_feature", 0),
               CfgAccess("write", "device_status", w3),
               CfgAccess("read", "device_status", s3) >>
        queue ==
            << CfgAccess("write", "queue_select", 0),
               CfgAccess("read", "queue_size", 0),
               CfgAccess("write", "queue_size", 0),
               CfgAccess("write", "queue_desc", 1),
               CfgAccess("write", "queue_driver", 2),
               CfgAccess("write", "queue_device", 3),
               CfgAccess("write", "queue_enable", 1),
               CfgAccess("write", "device_status", SetBit(s3, VIRTIO_STATUS_DRIVER_OK)) >>
    IN  IF (s3 \div VIRTIO_STATUS_FEATURES_OK) % 2 = 0
        THEN negotiate
        ELSE negotiate \o queue

\* the scan of vgp_get_display_info over resp->pmodes[]
RECURSIVE display_info_scan(_, _)
display_info_scan(pm, i) ==
    IF i >= VIRTIO_GPU_MAX_SCANOUTS THEN [found |-> FALSE, id |-> 0]
    ELSE IF pm[i].enabled # 0 THEN [found |-> TRUE, id |-> i]
    ELSE display_info_scan(pm, i + 1)

\* a caller of vgp_send_command: fills the command buffer and enters the call
IssueCommand(type, flags, resp_addr) ==
    /\ cmdType' = type
    /\ sentLog' = Append(sentLog, type)
    /\ vgp_send_command_enter(flags, resp_addr)

\* gpu_init after vgp_init or rfb_init has returned
gpu_init_finish(chosen) ==
    /\ chosen_GPU' = chosen
    /\ gpu_ready_flag' = TRUE
    /\ gpu_pc' = "done"

gpu_ready == chosen_GPU # "NONE" /\ gpu_ready_flag

\* gpu_init(preferred_screen_size): vgp_init up to its first command, or the
\* whole fallback when no virtio-gpu function is found
gpu_init ==
    /\ gpu_pc = "boot"
    /\ default_width' = prefSize.width
    /\ default_height' = prefSize.height
    /\ IF pciPresent
       THEN /\ device_status' = vgp_start(featuresOk).status
            /\ queue_enable' = vgp_start(featuresOk).enable
            /\ cfg_log' = vgp_start_accesses(featuresOk)
            /\ IssueCommand(VIRTIO_GPU_CMD_GET_DISPLAY_INFO, 0, "VIRTQUEUE_DISP_INFO")
            /\ gpu_pc' = "GET_DISPLAY_INFO"
            /\ UNCHANGED <<vgp_ret, rfb_ret, dmaLog, fbAllocSize, chosen_GPU, gpu_ready_flag>>
       ELSE LET r == rfb_init(prefSize.width, prefSize.height, fwPresent, fwDir, stackFile)
            IN  /\ vgp_ret' = "false"
                /\ rfb_ret' = IF r.ret THEN "true" ELSE "false"
                /\ dmaLog' = r.dma
                /\ fbAllocSize' = r.fb
                /\ gpu_init_finish(IF r.ret THEN "RAMFB" ELSE "NONE")
                /\ UNCHANGED <<device_status, queue_enable, cmdType, sentLog, vq_resp, cfg_log>>
                /\ UNCHANGED vqVars
    /\ UNCHANGED <<respBuf, dispInfoBuf, display_width, display_height, scanout_id,
                   scanout_found>>
    /\ UNCHANGED <<pciPresent, featuresOk, devScanouts, prefSize, fwPresent, fwDir, stackFile>>
    /\ UNCHANGED <<allocVars, kernVars, otherThanGpu>>

\* what every step of vgp_init after the first leaves alone
GpuStepFrame ==
    /\ UNCHANGED <<pciPresent, featuresOk, devScanouts, prefSize, fwPresent, fwDir, stackFile>>
    /\ UNCHANGED <<default_width, default_height, rfb_ret, dmaLog, device_status,
                   queue_enable, respBuf, cfg_log>>
    /\ UNCHANGED <<allocVars, kernVars, otherThanGpu>>

\* vgp_get_display_info after its command has returned, the framebuffer
\* palloc(framebuffer_size) of vgp_init, and vgp_create_2d_resource up to its command
vgp_create_2d_resource ==
    /\ gpu_pc = "GET_DISPLAY_INFO"
    /\ vq_pc = "returned"
    /\ LET sc == display_info_scan(dispInfoBuf, 0)
           w == IF sc.found THEN dispInfoBuf[sc.id].width ELSE display_width
           h == IF sc.found THEN dispInfoBuf[sc.id].height ELSE display_height
       IN  /\ display_width' = w
           /\ display_height' = h
           /\ scanout_id' = IF sc.found THEN sc.id ELSE scanout_id
           /\ scanout_found' = sc.found
           /\ dispInfoBuf' = IF sc.found THEN dispInfoBuf
                             ELSE [dispInfoBuf EXCEPT ![0].width = default_width,
                                                      ![0].height = default_height]
           /\ fbAllocSize' = w * h * 4
    /\ IssueCommand(VIRTIO_GPU_CMD_RESOURCE_CREATE_2D, VIRTQ_DESC_F_NEXT, "VIRTQUEUE_RESP")
    /\ gpu_pc' = "RESOURCE_CREATE_2D"
    /\ UNCHANGED <<vgp_ret, chosen_GPU, gpu_ready_flag>>
    /\ GpuStepFrame

\* the return of one command of vgp_init and the entry of the next
vgp_next_command(from, to, type) ==
    /\ gpu_pc = from
    /\ vq_pc = "returned"
    /\ IssueCommand(type, VIRTQ_DESC_F_NEXT, "VIRTQUEUE_RESP")
    /\ gpu_pc' = to
    /\ UNCHANGED <<display_width, display_height, scanout_id, scanout_found, dispInfoBuf,
                   fbAllocSize, vgp_ret, chosen_GPU, gpu_ready_flag>>
    /\ GpuStepFrame

vgp_attach_backing ==
    vgp_next_command("RESOURCE_CREATE_2D", "RESOURCE_ATTACH_BACKING",
                     VIRTIO_GPU_CMD_RESOURCE_ATTACH_BACKING)

\* vgp_transfer_to_host() called by vgp_init
vgp_transfer_to_host ==
    vgp_next_command("RESOURCE_ATTACH_BACKING", "TRANSFER_TO_HOST_2D",
                     VIRTIO_GPU_CMD_TRANSFER_TO_HOST_2D)

\* vgp_flush(): its own vgp_transfer_to_host() ...
vgp_flush_transfer ==
    vgp_next_command("TRANSFER_TO_HOST_2D", "FLUSH_TRANSFER",
                     VIRTIO_GPU_CMD_TRANSFER_TO_HOST_2D)

\* ... and its RESOURCE_FLUSH
vgp_flush ==
    vgp_next_command("FLUSH_TRANSFER", "RESOURCE_FLUSH", VIRTIO_GPU_CMD_RESOURCE_FLUSH)

\* if (scanout_found) vgp_set_scanout();
vgp_set_scanout ==
    /\ scanout_found
    /\ vgp_next_command("RESOURCE_FLUSH", "SET_SCANOUT", VIRTIO_GPU_CMD_SET_SCANOUT)

\* return true of vgp_init, and the rest of gpu_init
vgp_init_return ==
    /\ \/ gpu_pc = "RESOURCE_FLUSH" /\ ~scanout_found
       \/ gpu_pc = "SET_SCANOUT"
    /\ vq_pc = "returned"
    /\ vgp_ret' = "true"
    /\ gpu_init_finish("VIRTIO_GPU_PCI")
    /\ UNCHANGED <<display_width, display_height, scanout_id, scanout_found, dispInfoBuf,
                   fbAllocSize, cmdType, sentLog, vq_resp>>
    /\ UNCHANGED vqVars
    /\ GpuStepFrame

\* the devices explored: scanouts all disabled, scanout 0 at 1024x768, and
\* scanouts 2 and 5 enabled with different sizes
ScanoutSets ==
    { NoPmodes,
      [NoPmodes EXCEPT ![0] = [enabled |-> 1, width |-> 1024, height |-> 768]],
      [NoPmodes EXCEPT ![2] = [enabled |-> 1, width |-> 640, height |-> 480],
                       ![5] = [enabled |-> 1, width |-> 1280, height |-> 800]] }

\* what the display-info buffer holds before the first command: the code
\* never writes it; fresh RAM, or the response of an earlier boot
StaleDispInfo ==
    { NoPmodes,
      [NoPmodes EXCEPT ![1] = [enabled |-> 1, width |-> 320, height |-> 200]] }

PrefSizes == {[width |-> 800, height |-> 600], [width |-> 1024, height |-> 768]}

FwDirs ==
    { <<>>,
      <<FwEntry(Name_ramfb, 26, 28)>>,
      <<FwEntry(Name_rsdp, 32, 20)>>,
      <<FwEntry(Name_rsdp, 32, 20), FwEntry(Name_ramfb, 26, 28), FwEntry(Name_loader, 33, 4096)>>,
      <<FwEntry(Name_rsdp, 32, 20), FwEntry(Name_loader, 33, 4096)>> }

\* the struct fw_cfg_file on the stack of rfb_init before fw_find_file runs
StackFiles ==
    { [name |-> <<>>, size |-> 0, selector |-> 0],
      [name |-> <<>>, size |-> 0, selector |-> 4660] }

\* the driver's statics before gpu_init
GpuStatics ==
    /\ gpu_pc = "boot"
    /\ display_width = 800
    /\ display_height = 600
    /\ scanout_id = 0
    /\ scanout_found = FALSE
    /\ default_width = 0
    /\ default_height = 0
    /\ fbAllocSize = -1
    /\ sentLog = <<>>
    /\ cfg_log = <<>>
    /\ vgp_ret = "none"
    /\ rfb_ret = "none"
    /\ dmaLog = <<>>
    /\ chosen_GPU = "NONE"
    /\ gpu_ready_flag = FALSE

\* a machine whose graphics were brought up before the explored behaviour
GpuIdle ==
    /\ GpuStatics
    /\ pciPresent = TRUE
    /\ featuresOk = TRUE
    /\ devScanouts = NoPmodes
    /\ prefSize = [width |-> 800, height |-> 600]
    /\ fwPresent = FALSE
    /\ fwDir = <<>>
    /\ stackFile = [name |-> <<>>, size |-> 0, selector |-> 0]
    /\ dispInfoBuf = NoPmodes
    /\ device_status = 15
    /\ queue_enable = 1

\* the machine at the call of gpu_init
GpuInit ==
    /\ GpuStatics
    /\ pciPresent \in BOOLEAN
    /\ featuresOk \in BOOLEAN
    /\ devScanouts \in ScanoutSets
    /\ prefSize \in PrefSizes
    /\ fwPresent \in BOOLEAN
    /\ fwDir \in FwDirs
    /\ stackFile \in StackFiles
    /\ dispInfoBuf \in StaleDispInfo
    /\ device_status = 0
    /\ queue_enable = 0

GpuNext ==
    \/ gpu_init
    \/ vgp_create_2d_resource
    \/ vgp_attach_backing
    \/ vgp_transfer_to_host
    \/ vgp_flush_transfer
    \/ vgp_flush
    \/ vgp_set_scanout
    \/ vgp_init_return
    \/ vsc_desc0
    \/ vsc_desc1
    \/ vsc_avail_ring
    \/ vsc_avail_idx
    \/ vsc_notify
    \/ vsc_read_used
    \/ vsc_spin_exit
    \/ device_take_chain
    \/ device_publish_used

-----------------------------------------------------------------------------
(* kernel/process/scheduler.c : relocate_code.  An instruction word is the   *)
(* pair of its halves, hi = bits 31..16 and lo = bits 15..0.  Addresses are  *)
(* below 2^31, where the 64-bit arithmetic of the source does not wrap.      *)

RECURSIVE Pow2(_)
Pow2(n) == IF n = 0 THEN 1 ELSE 2 * Pow2(n - 1)

\* the value of the low n bits of x read as a two's complement number
Sext(x, n) == LET v == x % Pow2(n) IN IF v >= Pow2(n - 1) THEN v - Pow2(n) ELSE v

Word32(hi, lo) == [hi |-> hi, lo |-> lo]

\* bit fields of an instruction word
Imm26(instr) == (instr.hi % 1024) * 65536 + instr.lo            \* instr & 0x03FFFFFF
Imm19(instr) == ((instr.hi % 256) * 65536 + instr.lo) \div 32    \* (instr >> 5) & 0x7FFFF
ImmLo(instr) == (instr.hi \div 8192) % 4                         \* (instr >> 29) & 0x3
IsBranch(instr) == (instr.hi \div 1024) \in {5, 37}              \* op == 5 || op == 37
IsBcond(instr) == (instr.hi \div 256) = 84                       \* (instr >> 24) == 84
IsAdrp(instr) ==                                                 \* (instr & 0x9F000000) == 0x90000000
    instr.hi \div 32768 = 1 /\ (instr.hi \div 256) % 32 = 16

\* (instr & 0xFC000000) | (rel & 0x03FFFFFF)
SetImm26(instr, rel) ==
    LET v == rel % Pow2(26)
    IN  Word32((instr.hi \div 1024) * 1024 + (v \div 65536), v % 65536)

\* (instr & ~0xFFFFE0) | ((rel & 0x7FFFF) << 5)
SetImm19(instr, rel) ==
    LET v == rel % Pow2(19)
    IN  Word32((instr.hi \div 256) * 256 + (v \div 2048), (v % 2048) * 32 + (instr.lo % 32))

\* (instr & ~0x60000000) | (new_immlo << 29)
SetImmLo(instr, v) ==
    Word32((instr.hi \div 32768) * 32768 + (v % 4) * 8192 + (instr.hi % 8192), instr.lo)

PageOf(a) == a - (a % 4096)                                      \* a & ~0xFFF

\* one iteration of the loop of relocate_code: the word stored to dst32[i]
relocate_word(instr, i, src_base, dst_base, size, src_data_base, dst_data_base, data_size) ==
    IF IsBranch(instr)
    THEN LET offset == Sext(Imm26(instr), 26) * 4
             target == src_base + i * 4 + offset
             internal == target >= src_base /\ target < src_base + size
             rel == (target - (dst_base + i * 4)) \div 4
         IN  IF internal THEN instr ELSE SetImm26(instr, rel)
    ELSE IF IsBcond(instr)
    THEN LET offset == Sext(Imm19(instr), 26) * 4      \* (offset << 6) >> 6 on an int32_t
             target == src_base + i * 4 + offset
             internal == target >= src_base /\ target < src_base + size
             rel == (target - (dst_base + i * 4)) \div 4
         IN  IF internal THEN instr ELSE SetImm19(instr, rel)
    ELSE IF IsAdrp(instr)
    THEN LET imm21 == Imm19(instr) * 4 + ImmLo(instr)
             \* ((immhi << 14) | (immlo << 12)) << 43 >> 43 keeps bits 20..0
             offset == Sext((imm21 % 512) * 4096, 21)
             target == PageOf(src_base + i * 4) + offset
             internal == target >= src_data_base /\ target < src_data_base + data_size
             new_target == dst_data_base + (target - src_data_base)
             new_offset == new_target - PageOf(dst_base + i * 4)
             new_immhi == (new_offset \div 16384) % Pow2(19)
             new_immlo == (new_offset \div 4096) % 4
         IN  IF internal THEN SetImm19(SetImmLo(instr, new_immlo), new_immhi) ELSE instr
    ELSE instr

\* relocate_code(dst, src, size, src_data_base, dst_data_base, data_size):
\* the words at dst afterwards; blob holds the size / 4 words at src
relocate_code(dst, src, blob, src_data_base, dst_data_base, data_size) ==
    [k \in 1 .. Len(blob) |->
        relocate_word(blob[k], k - 1, src, dst, 4 * Len(blob), src_data_base,
                      dst_data_base, data_size)]

\* encodings of the instructions explored
EncB(op, imm26) == Word32(op * 1024 + (imm26 \div 65536), imm26 % 65536)
EncBcond(imm19, cond) == Word32(84 * 256 + (imm19 \div 2048), (imm19 % 2048) * 32 + cond)
EncAdrp(imm21, rd) ==
    Word32(32768 + (imm21 % 4) * 8192 + 16 * 256 + ((imm21 \div 4) \div 2048),
           ((imm21 \div 4) % 2048) * 32 + rd)
NopWord == Word32(54531, 8223)                                   \* 0xD503201F

\* number of words of the blob
BlobWords == 4

BranchImms == {1, 2, 1024, Pow2(26) - 1, Pow2(26) - 2, Pow2(26) - 1024}
BcondImms == {1, 2, 100, Pow2(19) - 1, Pow2(19) - 2}
AdrpImms == {0, 1, 2, 255, 256, Pow2(21) - 1}

InstrsExplored ==
    {EncB(op, imm) : op \in {5, 37}, imm \in BranchImms}
        \cup {EncBcond(imm, 1) : imm \in BcondImms}
        \cup {EncAdrp(imm, 3) : imm \in AdrpImms}

\* src in the kernel image; destinations near it and more than 128 MiB above
\* it; the data regions next to the code or more than 1 MiB from it
RelocCfgs ==
    [src : {1074266112, 1074270200},                 \* 0x40080000, 0x40080FF8
     dst1 : {1075838976, 1208614912},                \* 0x40200000, 0x480A0000
     dst2 : {1076887552},                            \* 0x40300000
     src_data : {1074270208, 1074274304, 1075314688}, \* 0x40081000, 0x40082000, 0x40180000
     dst1_data : {1075843072, 1077936128},           \* dst1 + 0x1000 (near), 0x40400000
     dst2_data : {1076891648},                       \* 0x40301000
     data_size : {8192}]

RelocInit ==
    /\ rl_cfg \in RelocCfgs
    /\ \E i \in 1 .. BlobWords, w \in InstrsExplored :
          rl_blob = [k \in 1 .. BlobWords |-> IF k = i THEN w ELSE NopWord]
    /\ rl_at1 = <<>>
    /\ rl_at2 = <<>>
    /\ rl_direct = <<>>

RelocIdle ==
    /\ rl_cfg = [src |-> 0, dst1 |-> 0, dst2 |-> 0, src_data |-> 0, dst1_data |-> 0,
                dst2_data |-> 0, data_size |-> 0]
    /\ rl_blob = <<>>
    /\ rl_at1 = <<>>
    /\ rl_at2 = <<>>
    /\ rl_direct = <<>>

\* relocate_code(dst1, src, size, src_data, dst1_data, data_size)
relocate_src_to_dst1 ==
    /\ rl_at1 = <<>>
    /\ rl_at1' = relocate_code(rl_cfg.dst1, rl_cfg.src, rl_blob, rl_cfg.src_data,
                               rl_cfg.dst1_data, rl_cfg.data_size)
    /\ UNCHANGED <<rl_blob, rl_cfg, rl_at2, rl_direct>>
    /\ UNCHANGED <<allocVars, kernVars, vqVars, vqBufVars, otherThanReloc>>

\* relocate_code(dst2, dst1, size, dst1_data, dst2_data, data_size)
relocate_dst1_to_dst2 ==
    /\ rl_at1 # <<>>
    /\ rl_at2 = <<>>
    /\ rl_at2' = relocate_code(rl_cfg.dst2, rl_cfg.dst1, rl_at1, rl_cfg.dst1_data,
                               rl_cfg.dst2_data, rl_cfg.data_size)
    /\ UNCHANGED <<rl_blob, rl_cfg, rl_at1, rl_direct>>
    /\ UNCHANGED <<allocVars, kernVars, vqVars, vqBufVars, otherThanReloc>>

\* relocate_code(dst2, src, size, src_data, dst2_data, data_size)
relocate_src_to_dst2 ==
    /\ rl_direct = <<>>
    /\ rl_direct' = relocate_code(rl_cfg.dst2, rl_cfg.src, rl_blob, rl_cfg.src_data,
                                  rl_cfg.dst2_data, rl_cfg.data_size)
    /\ UNCHANGED <<rl_blob, rl_cfg, rl_at1, rl_at2>>
    /\ UNCHANGED <<allocVars, kernVars, vqVars, vqBufVars, otherThanReloc>>

RelocNext ==
    \/ relocate_src_to_dst1
    \/ relocate_dst1_to_dst2
    \/ relocate_src_to_dst2


-----------------------------------------------------------------------------
(* kernel/mmu.c : mmu_map_2mb, mmu_map_4kb.  A 64-bit descriptor is the set  *)
(* of the positions of its one bits: | is \cup and & is \cap.               *)

PD_TABLE == {0, 1}                       \* 0b11
PD_BLOCK == {0}                          \* 0b01
PD_ACCESS == {10}                        \* 1 << 10
AddrMask == 12 .. 47                     \* 0xFFFFFFFFF000ULL

\* the bits of a number below 2^31, and the number of a set of such bits
BitWeight == [i \in 0 .. 30 |-> Pow2(i)]
Bits(n) == {i \in 0 .. 30 : (n \div BitWeight[i]) % 2 = 1}
RECURSIVE BitsVal(_)
BitsVal(b) == IF b = {} THEN 0 ELSE LET i == CHOOSE x \in b : TRUE IN BitWeight[i] + BitsVal(b \ {i})
Shl(b, k) == {i + k : i \in b}

\* page_table_l1 and the pages palloc hands out for the lower tables
page_table_l1 == 1074331648              \* 0x40090000
TableAddr(n) == 1140850688 + n * 4096    \* 0x44000000 + n pages

Entry(pt, tbl, idx) == IF <<tbl, idx>> \in DOMAIN pt THEN pt[<<tbl, idx>>] ELSE {}
Put(pt, tbl, idx, d) ==
    [k \in DOMAIN pt \cup {<<tbl, idx>>} |-> IF k = <<tbl, idx>> THEN d ELSE pt[k]]

\* (va >> shift) & 0x1FF, for the addresses below 2^31 that are mapped
TableIndex(va, shift) == IF shift > 30 THEN 0 ELSE (va \div Pow2(shift)) % 512

\* if (!(tbl[idx] & 1)) { t = palloc(PAGE_SIZE); zero it; tbl[idx] = (t & mask) | PD_TABLE; }
EnsureTable(st, tbl, idx) ==
    IF 0 \in Entry(st.pt, tbl, idx) THEN st
    ELSE [pt |-> Put(st.pt, tbl, idx, (Bits(TableAddr(st.n)) \cap AddrMask) \cup PD_TABLE),
          n |-> st.n + 1]

\* (uint64_t*)(tbl[idx] & 0xFFFFFFFFF000ULL)
NextTable(st, tbl, idx) == BitsVal(Entry(st.pt, tbl, idx) \cap AddrMask)

\* the walk both functions share: the state after L2 and L3 exist, and L3
WalkFrom(st, va) ==
    LET s1 == EnsureTable(st, page_table_l1, TableIndex(va, 37))
        l2 == NextTable(s1, page_table_l1, TableIndex(va, 37))
        s2 == EnsureTable(s1, l2, TableIndex(va, 30))
    IN  [st |-> s2, l3 |-> NextTable(s2, l2, TableIndex(va, 30))]

WalkToL3(va) == WalkFrom([pt |-> mmu_pt, n |-> mmu_ntables], va)

\* number of mapping calls explored
MaxMaps == 2

NoMap == [op |-> "none", va |-> 0, pa |-> 0, attr_index |-> 0, level |-> 0,
          installed |-> FALSE, tbl |-> 0]

mmu_map_2mb(va, pa, attr_index) ==
    /\ mmu_calls < MaxMaps
    /\ \E w \in {WalkToL3(va)} :
          \E attr \in {PD_ACCESS \cup {8, 9} \cup Shl(Bits(attr_index), 2) \cup PD_BLOCK} :
              /\ mmu_pt' = Put(w.st.pt, w.l3, TableIndex(va, 21), (Bits(pa) \cap AddrMask) \cup attr)
              /\ mmu_ntables' = w.st.n
              /\ mmu_last' = [op |-> "map_2mb", va |-> va, pa |-> pa, attr_index |-> attr_index,
                              level |-> 1, installed |-> TRUE, tbl |-> w.l3]
    /\ mmu_calls' = mmu_calls + 1
    /\ UNCHANGED <<allocVars, kernVars, vqVars, vqBufVars, otherThanMmu>>

\* permission of the switch on level
Permission(level) == CASE level = 0 -> {0} [] level = 1 -> {} [] level = 2 -> {1}

\* (level == 1) << 54 shifts an int by more than its width: the build may drop
\* the term, shift by 54 mod 32, or shift in a 64-bit register
ShiftOutcomes(level) == IF level = 1 THEN {{}, {22}, {54}} ELSE {{}}

\* uint64_t attr = ((level == 1) << 54) | (0 << 53) | PD_ACCESS | (0b11 << 8)
\*                     | (permission << 6) | (attr_index << 2) | 0b11
PageAttr(attr_index, level, shifted) ==
    shifted \cup PD_ACCESS \cup {8, 9} \cup Shl(Permission(level), 6)
        \cup Shl(Bits(attr_index), 2) \cup {0, 1}

\* mmu_map_4kb without the else-branch of lines 93-96: the block descriptor
\* is read as the address of an L4 table
mmu_map_4kb_noblock(va, pa, attr_index, level, shifted) ==
    /\ mmu_calls < MaxMaps
    /\ \E w \in {WalkToL3(va)} :
          \E s3 \in {EnsureTable(w.st, w.l3, TableIndex(va, 21))} :
          \E l4 \in {NextTable(s3, w.l3, TableIndex(va, 21))} :
              /\ mmu_pt' = Put(s3.pt, l4, TableIndex(va, 12),
                               (Bits(pa) \cap AddrMask)
                                   \cup PageAttr(attr_index, level, shifted))
              /\ mmu_ntables' = s3.n
              /\ mmu_last' = [op |-> "map_4kb", va |-> va, pa |-> pa,
                              attr_index |-> attr_index, level |-> level,
                              installed |-> TRUE, tbl |-> l4]
    /\ mmu_calls' = mmu_calls + 1
    /\ UNCHANGED <<allocVars, kernVars, vqVars, vqBufVars, otherThanMmu>>

mmu_map_4kb(va, pa, attr_index, level, shifted) ==
    /\ mmu_calls < MaxMaps
    /\ \E w \in {WalkToL3(va)} :
          \E l3_val \in {Entry(w.st.pt, w.l3, TableIndex(va, 21))} :
              IF 0 \in l3_val /\ (l3_val \cap {0, 1}) = PD_BLOCK
              THEN \* already mapped at higher granularity: return
                   /\ mmu_pt' = w.st.pt
                   /\ mmu_ntables' = w.st.n
                   /\ mmu_last' = [op |-> "map_4kb", va |-> va, pa |-> pa,
                                   attr_index |-> attr_index, level |-> level,
                                   installed |-> FALSE, tbl |-> w.l3]
              ELSE \E s3 \in {EnsureTable(w.st, w.l3, TableIndex(va, 21))} :
                   \E l4 \in {NextTable(s3, w.l3, TableIndex(va, 21))} :
                       /\ mmu_pt' = Put(s3.pt, l4, TableIndex(va, 12),
                                        (Bits(pa) \cap AddrMask)
                                            \cup PageAttr(attr_index, level, shifted))
                       /\ mmu_ntables' = s3.n
                       /\ mmu_last' = [op |-> "map_4kb", va |-> va, pa |-> pa,
                                       attr_index |-> attr_index, level |-> level,
                                       installed |-> TRUE, tbl |-> l4]
    /\ mmu_calls' = mmu_calls + 1
    /\ UNCHANGED <<allocVars, kernVars, vqVars, vqBufVars, otherThanMmu>>

\* the UART page, its neighbour, and a page of kernel memory
MapVas == {150994944, 150999040, 1075838976}                 \* 0x09000000, 0x09001000, 0x40200000
\* identity mappings as mmu_init makes them, and a frame given by the caller
MapPas(va) == {va, 1244944000}                               \* 0x4A345680
AttrIndexes == {0, 1}                    \* MAIR_IDX_DEVICE, MAIR_IDX_NORMAL
Levels == {0, 1, 2}

MmuInit ==
    /\ mmu_pt = <<>>
    /\ mmu_ntables = 0
    /\ mmu_last = NoMap
    /\ mmu_calls = 0

MmuNext ==
    \/ \E va \in MapVas, attr_index \in AttrIndexes : \E pa \in MapPas(va) :
          mmu_map_2mb(va, pa, attr_index)
    \/ \E va \in MapVas, attr_index \in AttrIndexes, level \in Levels :
          \E pa \in MapPas(va), shifted \in ShiftOutcomes(level) :
              mmu_map_4kb(va, pa, attr_index, level, shifted)


-----------------------------------------------------------------------------
(* kernel/dtb.c : get_memory_region.  The blob is the sequence of its bytes  *)
(* (byte k of the blob is dtb_mem[k + 1]); a uint32_t loaded by the          *)
(* little-endian CPU is the tuple of its bytes, least significant first.     *)

FDT_MAGIC == <<237, 254, 13, 208>>       \* 0xD00DFEED, least significant byte first
FDT_BEGIN_NODE == 1
FDT_END_NODE == 2
FDT_PROP == 3
FDT_NOP == 4
FDT_END == 9

\* *(uint32_t *)(DTB_ADDR + off)
Load32(mem, off) == <<mem[off + 1], mem[off + 2], mem[off + 3], mem[off + 4]>>
InBlob32(mem, off) == off >= 0 /\ off + 4 <= Len(mem)

\* the bytes of the string at off, without its terminator
RECURSIVE CStr(_, _)
CStr(mem, off) ==
    IF off + 1 > Len(mem) \/ mem[off + 1] = 0 THEN <<>>
    ELSE <<mem[off + 1]>> \o CStr(mem, off + 1)

RECURSIVE str_eq(_, _)
str_eq(a, b) ==
    IF a # <<>> /\ b # <<>>
    THEN IF Head(a) # Head(b) THEN 0 ELSE str_eq(Tail(a), Tail(b))
    ELSE IF a = <<>> /\ b = <<>> THEN 1 ELSE 0

Str_reg == <<114, 101, 103>>
Str_device_type == <<100, 101, 118, 105, 99, 101, 95, 116, 121, 112, 101>>
Str_address_cells == <<35, 97, 100, 100, 114, 101, 115, 115, 45, 99, 101, 108, 108, 115>>
Str_size_cells == <<35, 115, 105, 122, 101, 45, 99, 101, 108, 108, 115>>
Str_compatible == <<99, 111, 109, 112, 97, 116, 105, 98, 108, 101>>
Str_interrupt_parent == <<105, 110, 116, 101, 114, 114, 117, 112, 116, 45, 112, 97, 114, 101, 110, 116>>
Str_model == <<109, 111, 100, 101, 108>>

\* return 0: *out_base and *out_size are not written (<<>>)
NotFound == [at |-> "returned", ret |-> 0, base |-> <<>>, size |-> <<>>]
\* the scan left the blob: what it reads there is not the blob's to say
LeftBlob == [at |-> "left the blob", ret |-> 0, base |-> <<>>, size |-> <<>>]

\* the while (1) loop: p is the offset of the next token, string the offset
\* of the strings block
RECURSIVE dtb_loop(_, _, _, _)
dtb_loop(mem, p, string, in_mem) ==
    IF ~InBlob32(mem, p) THEN LeftBlob
    ELSE LET token == Val32(bswap32(Load32(mem, p)))
             q == p + 4
         IN  IF token = FDT_END THEN NotFound
             ELSE IF token = FDT_BEGIN_NODE
             THEN LET name == q
                      skip == Len(CStr(mem, q))
                      me == /\ InBlob32(mem, name)
                            /\ mem[name + 1] = 109 /\ mem[name + 2] = 101     \* 'm', 'e'
                  IN  dtb_loop(mem, q + ((skip + 4) \div 4) * 4, string, me)
             ELSE IF token = FDT_PROP /\ in_mem
             THEN IF ~InBlob32(mem, q + 4) THEN LeftBlob
                  ELSE LET len == Val32(bswap32(Load32(mem, q)))
                           nameoff == Val32(bswap32(Load32(mem, q + 4)))
                           d == q + 8
                       IN  IF str_eq(CStr(mem, string + nameoff), Str_reg) = 1 /\ len >= 16
                           THEN IF ~InBlob32(mem, d + 12) THEN LeftBlob
                                ELSE [at |-> "returned", ret |-> 1,
                                      base |-> <<Val32(bswap32(Load32(mem, d))),
                                                 Val32(bswap32(Load32(mem, d + 4)))>>,
                                      size |-> <<Val32(bswap32(Load32(mem, d + 8))),
                                                 Val32(bswap32(Load32(mem, d + 12)))>>]
                           ELSE dtb_loop(mem, d + ((len + 3) \div 4) * 4, string, in_mem)
             ELSE IF token = FDT_END_NODE THEN dtb_loop(mem, q, string, FALSE)
             ELSE dtb_loop(mem, q, string, in_mem)

\* the offsets of the header fields read
OffMagic == 0
OffDtStruct == 8
OffDtStrings == 12

\* get_memory_region(&base, &size): the return value and what was stored; a
\* 64-bit result is the pair <<high word, low word>>
dtb_get_memory_region(mem) ==
    IF bswap32(Load32(mem, OffMagic)) # FDT_MAGIC THEN NotFound
    ELSE dtb_loop(mem, Val32(bswap32(Load32(mem, OffDtStruct))),
                  Val32(bswap32(Load32(mem, OffDtStrings))), FALSE)

\* ---- flattening a device tree (devicetree specification, 5.4) ----
RECURSIVE Flat(_)
Flat(ss) == IF ss = <<>> THEN <<>> ELSE Head(ss) \o Flat(Tail(ss))
Pad4(bytes) == bytes \o [i \in 1 .. ((4 - (Len(bytes) % 4)) % 4) |-> 0]
Name(str) == Pad4(str \o <<0>>)
Tok(t) == Be32(t)

\* the strings block and the offsets of its names
StringsBlock ==
    Flat(<<Str_reg, <<0>>, Str_device_type, <<0>>, Str_address_cells, <<0>>,
           Str_size_cells, <<0>>, Str_compatible, <<0>>, Str_interrupt_parent, <<0>>,
           Str_model, <<0>>>>)
RECURSIVE OffsetOf(_, _)
OffsetOf(str, off) ==
    IF CStr(StringsBlock, off) = str THEN off
    ELSE OffsetOf(str, off + Len(CStr(StringsBlock, off)) + 1)

FlatProp(name, value) ==
    Flat(<<Tok(FDT_PROP), Be32(Len(value)), Be32(OffsetOf(name, 0)), Pad4(value)>>)

\* properties a root node carries before its first child
RootProps ==
    {[name |-> Str_address_cells, value |-> Be32(2)],
     [name |-> Str_size_cells, value |-> Be32(2)],
     [name |-> Str_interrupt_parent, value |-> Be32(1)],
     [name |-> Str_compatible, value |-> <<97, 114, 109, 44, 118, 105, 114, 116>> \o <<0>>],
     [name |-> Str_model, value |-> <<108, 105, 110, 117, 120, 44, 100, 117, 109, 109, 121, 45, 118, 105, 114, 116>> \o <<0>>]}

\* number of properties of the root node
MaxRootProps == 2

RECURSIVE FlatProps(_)
FlatProps(ps) ==
    IF ps = <<>> THEN <<>> ELSE FlatProp(Head(ps).name, Head(ps).value) \o FlatProps(Tail(ps))

Reg64(v) == Be32(v[1]) \o Be32(v[2])

StructBlock(tree) ==
    Flat(<<Tok(FDT_BEGIN_NODE), Name(<<>>),
           FlatProps(tree.props),
           IF tree.sibling
           THEN Flat(<<Tok(FDT_BEGIN_NODE), Name(<<99, 112, 117, 115>>), Tok(FDT_END_NODE)>>)
           ELSE <<>>,
           Tok(FDT_BEGIN_NODE), Name(<<109, 101, 109, 111, 114, 121, 64, 52, 48, 48, 48, 48, 48, 48, 48>>),
           FlatProp(Str_device_type, <<109, 101, 109, 111, 114, 121>> \o <<0>>),
           FlatProp(Str_reg, Reg64(tree.base) \o Reg64(tree.size)),
           Tok(FDT_END_NODE),
           Tok(FDT_END_NODE),
           Tok(FDT_END)>>)

\* header (10 words), an empty memory reservation map, the structure block,
\* the strings block
HeaderBytes == 40
RsvmapBytes == 16
Blob(tree) ==
    LET st == StructBlock(tree)
        off_struct == HeaderBytes + RsvmapBytes
        off_strings == off_struct + Len(st)
    IN  Flat(<<IF tree.magic THEN bswap32(FDT_MAGIC) ELSE Be32(0),
               Be32(off_strings + Len(StringsBlock)),
               Be32(off_struct), Be32(off_strings), Be32(HeaderBytes),
               Be32(17), Be32(16), Be32(0), Be32(Len(StringsBlock)), Be32(Len(st)),
               [i \in 1 .. RsvmapBytes |-> 0],
               st, StringsBlock>>)

PropSeqs == UNION {[1 .. n -> RootProps] : n \in 0 .. MaxRootProps}

Trees ==
    [magic : BOOLEAN, props : PropSeqs, sibling : BOOLEAN,
     base : {<<0, 1073741824>>, <<1, 305419896>>},           \* 0x40000000, 0x1_12345678
     size : {<<0, 1073741824>>, <<0, 134217728>>, <<2, 0>>}] \* 1 GiB, 128 MiB, 8 GiB

NoRegion == [at |-> "not called", ret |-> 0, base |-> <<>>, size |-> <<>>]

DtbInit ==
    /\ dtb_tree \in Trees
    /\ dtb_mem = Blob(dtb_tree)
    /\ dtb_out = NoRegion

DtbIdle ==
    /\ dtb_tree = [magic |-> FALSE, props |-> <<>>, sibling |-> FALSE,
                   base |-> <<0, 0>>, size |-> <<0, 0>>]
    /\ dtb_mem = <<>>
    /\ dtb_out = NoRegion

get_memory_region ==
    /\ dtb_out = NoRegion
    /\ dtb_out' = dtb_get_memory_region(dtb_mem)
    /\ UNCHANGED <<dtb_tree, dtb_mem>>
    /\ UNCHANGED <<allocVars, kernVars, vqVars, vqBufVars, otherThanDtb>>

DtbNext == get_memory_region


-----------------------------------------------------------------------------
(* kernel/fw/fw_cfg.c : fw_find_file called on its own *)

Name_ram == <<"e", "t", "c", "/", "r", "a", "m">>

\* entries of the directories searched: a name, a longer name it is a prefix
\* of, the same name again under another selector, an unrelated name
DirEntries ==
    {FwEntry(Name_ramfb, 26, 28), FwEntry(Name_ramfb, 39, 28),
     FwEntry(Name_ram, 517, 64), FwEntry(Name_rsdp, 32, 20)}

\* number of entries of a directory
MaxDirEntries == 3

DirsSearched == UNION {[1 .. n -> DirEntries] : n \in 0 .. MaxDirEntries}

FwInit ==
    /\ fw_present \in BOOLEAN
    /\ fw_dir \in DirsSearched
    /\ fw_search \in {Name_ramfb, Name_ram, Name_rsdp, Name_loader}
    /\ fw_file = [name |-> <<>>, size |-> 0, selector |-> 0]
    /\ fw_ret = "none"

FwIdle ==
    /\ fw_present = FALSE
    /\ fw_dir = <<>>
    /\ fw_search = <<>>
    /\ fw_file = [name |-> <<>>, size |-> 0, selector |-> 0]
    /\ fw_ret = "none"

\* found = fw_find_file(search, &file)
fw_find_file_call ==
    /\ fw_ret = "none"
    /\ \E r \in {fw_find_file(fw_present, fw_dir, fw_search, fw_file)} :
          /\ fw_ret' = IF r.found THEN "true" ELSE "false"
          /\ fw_file' = r.file
    /\ UNCHANGED <<fw_present, fw_dir, fw_search>>
    /\ UNCHANGED <<allocVars, kernVars, vqVars, vqBufVars, otherThanAux, auxOtherThanFw>>

FwNext == fw_find_file_call

-----------------------------------------------------------------------------
(* the process table close to its capacity *)

\* records still free in the tables explored
MaxFreeSlots == 4
\* calls made on one table
MaxCreateCalls == 5

NoCreate == [n |-> 0, fn |-> "none", ret |-> "none"]

TblIdle == create_last = NoCreate

\* a table filled by earlier calls of create_kernel_process (kernel = TRUE) or
\* of create_process, boot code still running
TblInit ==
    /\ \E n \in (MAX_PROCS - MaxFreeSlots) .. MAX_PROCS : \E kernel \in BOOLEAN :
          /\ proc_count = n
          /\ processes = [i \in Procs |->
                            IF i < n
                            THEN [state |-> "READY",
                                  spsr |-> IF kernel THEN SPSR_EL1H_MASKED ELSE SPSR_EL0,
                                  pc |-> BodyPos(i), id |-> i]
                            ELSE [state |-> "READY", spsr |-> 0, pc |-> NoPos, id |-> 0]]
          /\ irqMasked = kernel
    /\ current_proc = 0
    /\ cpuPos = BootPos
    /\ cpuEL = 1
    /\ timerOn = FALSE
    /\ timerPending = FALSE
    /\ panicked = FALSE
    /\ panicProc = 0
    /\ restoredAfterPanic = FALSE
    /\ lastRestore = [valid |-> FALSE, proc |-> 0, masked |-> FALSE]
    /\ switchLog = <<>>
    /\ lastSvc = NoSvc
    /\ svcOut = <<>>
    /\ panicOut = <<>>
    /\ create_last = NoCreate

\* p = create_process(...)
create_process_call ==
    /\ create_last.n < MaxCreateCalls
    /\ create_process_run
    /\ create_last' = [n |-> create_last.n + 1, fn |-> "create_process",
                       ret |-> IF proc_count >= MAX_PROCS THEN "null"
                               ELSE IF cpuPos'.k = "boot" THEN "proc" ELSE "no return"]
    /\ UNCHANGED <<otherThanAux, auxOtherThanTbl>>

\* p = create_kernel_process(...)
create_kernel_process_call ==
    /\ create_last.n < MaxCreateCalls
    /\ create_kernel_process_run
    /\ create_last' = [n |-> create_last.n + 1, fn |-> "create_kernel_process",
                       ret |-> IF cpuPos'.k = "boot" THEN "proc" ELSE "no return"]
    /\ UNCHANGED <<otherThanAux, auxOtherThanTbl>>

TblNext == create_process_call \/ create_kernel_process_call

-----------------------------------------------------------------------------
(* switch_proc on tables whose entries are in any state *)

\* entries of the tables explored
MaxSwitchProcs == 3

ProcStates == {"READY", "BLOCKED"}

\* a table of n records whose state fields are free (src/ itself stores READY
\* only), seen either by boot code about to call start_scheduler or by the
\* process cur running with the timer armed
SwitchInit ==
    /\ \E n \in 0 .. MaxSwitchProcs : \E kernel \in BOOLEAN :
       \E st \in [0 .. (n - 1) -> ProcStates] : \E cur \in 0 .. (n - 1) \cup {-1} :
          /\ proc_count = n
          /\ processes = [i \in Procs |->
                            IF i < n
                            THEN [state |-> st[i],
                                  spsr |-> IF kernel THEN SPSR_EL1H_MASKED ELSE SPSR_EL0,
                                  pc |-> BodyPos(i), id |-> i]
                            ELSE [state |-> "READY", spsr |-> 0, pc |-> NoPos, id |-> 0]]
          /\ IF cur = -1
             THEN /\ current_proc = 0
                  /\ cpuPos = BootPos
                  /\ cpuEL = 1
                  /\ irqMasked = TRUE
                  /\ timerOn = FALSE
             ELSE /\ current_proc = cur
                  /\ cpuPos = BodyPos(cur)
                  /\ cpuEL = IF kernel THEN 1 ELSE 0
                  /\ irqMasked = FALSE
                  /\ timerOn = TRUE
    /\ timerPending = FALSE
    /\ panicked = FALSE
    /\ panicProc = 0
    /\ restoredAfterPanic = FALSE
    /\ lastRestore = [valid |-> FALSE, proc |-> 0, masked |-> FALSE]
    /\ switchLog = <<>>
    /\ lastSvc = NoSvc
    /\ svcOut = <<>>
    /\ panicOut = <<>>

SwitchNext == start_scheduler \/ timer_fire \/ irq_el1_handler

IrqIdle == irq_log = <<>>

-----------------------------------------------------------------------------
(* uart.c and kio.c statement by statement: uart_puthex and kprintf_args *)

\* console calls made in one run
MaxConsoleCalls == 2

\* arguments of uart_puthex: one, two and five digits
HexValues == {0, 31, 74565}

\* the formatted prints made
PrintCalls == {c \in SvcCalls : c.x8 = PRINTF_SYSCALL}

ConAt(fn, at, i) == [fn |-> fn, at |-> at, i |-> i]
ConIdlePos == ConAt("none", "idle", 0)

ConIdle ==
    /\ con_pc = ConIdlePos
    /\ con_text = <<>>
    /\ con_out = <<>>
    /\ con_buf = 0
    /\ con_n = 0

\* the statements of the console leave everything but PSTATE.I alone
ConFrame ==
    UNCHANGED <<kernOtherThanMask, vqVars, vqBufVars, otherThanAux, auxOtherThanCon>>
AllocFrame == UNCHANGED <<live, lastCall, prevCall, allocOps>>

\* uart.c:66, uart_puthex entered: disable_interrupt()
uart_puthex_disable(value) ==
    /\ con_pc.at \in {"idle", "done"} /\ con_n < MaxConsoleCalls
    /\ con_n' = con_n + 1
    /\ irqMasked' = TRUE
    /\ con_pc' = ConAt("uart_puthex", "prefix", 0)
    /\ con_text' = HexNibbles(value)
    /\ con_out' = <<>>
    /\ UNCHANGED <<con_buf, allocVars>> /\ ConFrame

\* uart.c:69-70: uart_raw_putc('0'); uart_raw_putc('x')
uart_puthex_prefix ==
    /\ con_pc = ConAt("uart_puthex", "prefix", 0)
    /\ con_out' = con_out \o <<"0", "x">>
    /\ con_pc' = ConAt("uart_puthex", "loop", 1)
    /\ UNCHANGED <<irqMasked, con_text, con_buf, con_n, allocVars>> /\ ConFrame

\* uart.c:75 -> uart.c:47: uart_putc(curr_char) entered: disable_interrupt()
uart_putc_disable ==
    /\ con_pc.fn = "uart_puthex" /\ con_pc.at = "loop" /\ con_pc.i <= Len(con_text)
    /\ irqMasked' = TRUE
    /\ con_pc' = [con_pc EXCEPT !.at = "putc_raw"]
    /\ UNCHANGED <<con_text, con_out, con_buf, con_n, allocVars>> /\ ConFrame

\* uart.c:48: uart_raw_putc(c)
uart_putc_raw ==
    /\ con_pc.fn = "uart_puthex" /\ con_pc.at = "putc_raw"
    /\ con_out' = Append(con_out, con_text[con_pc.i])
    /\ con_pc' = [con_pc EXCEPT !.at = "putc_enable"]
    /\ UNCHANGED <<irqMasked, con_text, con_buf, con_n, allocVars>> /\ ConFrame

\* uart.c:49: enable_interrupt(), and back to the loop of uart_puthex
uart_putc_enable ==
    /\ con_pc.fn = "uart_puthex" /\ con_pc.at = "putc_enable"
    /\ irqMasked' = FALSE
    /\ con_pc' = [con_pc EXCEPT !.at = "loop", !.i = con_pc.i + 1]
    /\ UNCHANGED <<con_text, con_out, con_buf, con_n, allocVars>> /\ ConFrame

\* uart.c:78: the loop is over: enable_interrupt()
uart_puthex_enable ==
    /\ con_pc.fn = "uart_puthex" /\ con_pc.at = "loop" /\ con_pc.i > Len(con_text)
    /\ irqMasked' = FALSE
    /\ con_pc' = [con_pc EXCEPT !.at = "done"]
    /\ UNCHANGED <<con_text, con_out, con_buf, con_n, allocVars>> /\ ConFrame

\* kio.c:38, kprintf_args entered: disable_interrupt()
kprintf_args_disable(c) ==
    /\ con_pc.at \in {"idle", "done"} /\ con_n < MaxConsoleCalls
    /\ con_n' = con_n + 1
    /\ irqMasked' = TRUE
    /\ con_pc' = ConAt("kprintf_args", "format", 0)
    /\ con_text' = <<c.x0, c.x1, c.x2>>
    /\ con_out' = <<>>
    /\ UNCHANGED <<con_buf, allocVars>> /\ ConFrame

\* kio.c:44: kstring s = string_format_args(fmt, args, arg_count).  A talloc
\* that finds no room does not return.
kprintf_format ==
    /\ con_pc = ConAt("kprintf_args", "format", 0)
    /\ LET out == string_format_args(con_text[1], con_text[2], con_text[3])
           f == string_format_alloc(CurAlloc, out.nhex)
       IN  /\ SetAlloc(f.a)
           /\ IF f.how = "ok"
              THEN /\ con_text' = out.buf
                   /\ con_buf' = tallocCore(CurAlloc, 256).ret
                   /\ con_pc' = ConAt("kprintf_args", "puts", 1)
              ELSE /\ con_pc' = ConAt("kprintf_args", "no return", 0)
                   /\ UNCHANGED <<con_text, con_buf>>
    /\ UNCHANGED <<irqMasked, con_out, con_n>> /\ AllocFrame /\ ConFrame

\* kio.c:45, puts(s.data): uart_raw_puts, one uart_raw_putc per character
kprintf_puts ==
    /\ con_pc.fn = "kprintf_args" /\ con_pc.at = "puts" /\ con_pc.i <= Len(con_text)
    /\ con_out' = Append(con_out, con_text[con_pc.i])
    /\ con_pc' = [con_pc EXCEPT !.i = con_pc.i + 1]
    /\ UNCHANGED <<irqMasked, con_text, con_buf, con_n, allocVars>> /\ ConFrame

\* kio.c:46, putc('\n')
kprintf_putc ==
    /\ con_pc.fn = "kprintf_args" /\ con_pc.at = "puts" /\ con_pc.i > Len(con_text)
    /\ con_out' = Append(con_out, "\n")
    /\ con_pc' = ConAt("kprintf_args", "free", 0)
    /\ UNCHANGED <<irqMasked, con_text, con_buf, con_n, allocVars>> /\ ConFrame

\* kio.c:47, temp_free(s.data, 256)
kprintf_temp_free ==
    /\ con_pc = ConAt("kprintf_args", "free", 0)
    /\ SetAlloc(temp_free_core(CurAlloc, con_buf, 256))
    /\ con_buf' = 0
    /\ con_pc' = ConAt("kprintf_args", "enable", 0)
    /\ UNCHANGED <<irqMasked, con_text, con_out, con_n>> /\ AllocFrame /\ ConFrame

\* kio.c:40: enable_interrupt()
kprintf_args_enable ==
    /\ con_pc = ConAt("kprintf_args", "enable", 0)
    /\ irqMasked' = FALSE
    /\ con_pc' = ConAt("kprintf_args", "done", 0)
    /\ UNCHANGED <<con_text, con_out, con_buf, con_n, allocVars>> /\ ConFrame

ConNext ==
    \/ \E value \in HexValues : uart_puthex_disable(value)
    \/ uart_puthex_prefix
    \/ uart_putc_disable
    \/ uart_putc_raw
    \/ uart_putc_enable
    \/ uart_puthex_enable
    \/ \E c \in PrintCalls : kprintf_args_disable(c)
    \/ kprintf_format
    \/ kprintf_puts
    \/ kprintf_putc
    \/ kprintf_temp_free
    \/ kprintf_args_enable

-----------------------------------------------------------------------------
(* the bootscreen kernel process (bootscreen.c) preempted by the timer, and *)
(* proc_func (scheduler.c) printing through SVC 3 (syscall.c)              *)

\* calls of boot_draw_name and printf syscalls in one run
MaxDraws == 3
MaxSvcPrints == 3

BOOTSCREEN == 0             \* processes[0]: the bootscreen kernel process
PROC_FUNC == 1              \* processes[1]: proc_func at EL0

PreIdle ==
    /\ bs_pc = "none"
    /\ bs_result = 0
    /\ bs_s = 0
    /\ bs_draws = 0
    /\ svc_buf = 0
    /\ svc_n = 0
    /\ alloc_overlap = FALSE

\* the scheduler has started the bootscreen process: restore_context has set
\* PSTATE from its spsr 0x3C5, IRQs masked; the timer is armed
PreInit ==
    /\ processes = [i \in Procs |->
                      IF i = BOOTSCREEN
                      THEN [state |-> "READY", spsr |-> SPSR_EL1H_MASKED,
                            pc |-> BodyPos(i), id |-> i]
                      ELSE IF i = PROC_FUNC
                      THEN [state |-> "READY", spsr |-> SPSR_EL0, pc |-> BodyPos(i), id |-> i]
                      ELSE [state |-> "READY", spsr |-> 0, pc |-> NoPos, id |-> 0]]
    /\ proc_count = 2
    /\ current_proc = BOOTSCREEN
    /\ cpuPos = BodyPos(BOOTSCREEN)
    /\ cpuEL = 1
    /\ irqMasked = TRUE
    /\ timerOn = TRUE
    /\ timerPending = FALSE
    /\ panicked = FALSE
    /\ panicProc = 0
    /\ restoredAfterPanic = FALSE
    /\ lastRestore = [valid |-> TRUE, proc |-> BOOTSCREEN, masked |-> TRUE]
    /\ switchLog = <<BOOTSCREEN>>
    /\ lastSvc = NoSvc
    /\ svcOut = <<>>
    /\ panicOut = <<>>
    /\ bs_pc = "gpu_clear"
    /\ bs_result = 0
    /\ bs_s = 0
    /\ bs_draws = 0
    /\ svc_buf = 0
    /\ svc_n = 0
    /\ alloc_overlap = FALSE

\* what the statements of the two processes leave alone
PreFrame ==
    /\ UNCHANGED <<processes, proc_count, timerOn, timerPending, panicked, panicProc,
                   restoredAfterPanic, lastRestore, switchLog, lastSvc, svcOut, panicOut>>
    /\ UNCHANGED <<live, lastCall, prevCall, allocOps>>
    /\ UNCHANGED <<vqVars, vqBufVars, otherThanAux, auxOtherThanPre>>
AllocSame == UNCHANGED <<next_free_temp_memory, next_free_perm_memory, temp_free_list, heapHdr>>

\* the bootscreen process is inside talloc or temp_free
InAllocator == bs_pc \in {"talloc_walk", "talloc_unlink", "talloc_bump"}

\* bootscreen.c:89, gpu_clear(0): with the virtio GPU it reaches vgp_clear,
\* whose printf("Clear screen") (driver line 646) is a kprintf_args and ends
\* with enable_interrupt()
bootscreen_gpu_clear ==
    /\ current_proc = BOOTSCREEN /\ bs_pc = "gpu_clear"
    /\ LET f == format_alloc(CurAlloc, 0)
       IN  /\ SetAlloc(f.a)
           /\ bs_pc' = IF f.how = "ok" THEN "draw" ELSE "no return"
           /\ irqMasked' = IF f.how = "ok" THEN FALSE ELSE TRUE
    /\ UNCHANGED <<current_proc, cpuPos, cpuEL, bs_result, bs_s, bs_draws, svc_buf, svc_n,
                   alloc_overlap>>
    /\ PreFrame

\* boot_draw_name, bootscreen.c:29: string_format_args(name, i, 1) enters
\* talloc(256); ram_e.c:122, size is rounded
boot_draw_name_talloc ==
    /\ current_proc = BOOTSCREEN /\ bs_pc = "draw" /\ bs_draws < MaxDraws
    /\ bs_draws' = bs_draws + 1
    /\ bs_pc' = "talloc_walk"
    /\ UNCHANGED <<current_proc, cpuPos, cpuEL, irqMasked, bs_result, bs_s, svc_buf, svc_n,
                   alloc_overlap>>
    /\ AllocSame /\ PreFrame

\* ram_e.c:130-143 and 149-153: the head of the free list is read (every block
\* of these runs is one page, so the head fits when there is one), or the bump
\* pointer is tested and read into result
talloc_read ==
    /\ current_proc = BOOTSCREEN /\ bs_pc = "talloc_walk"
    /\ IF temp_free_list # NULL /\ heapHdr[temp_free_list].size >= AlignUp(256)
       THEN bs_result' = temp_free_list /\ bs_pc' = "talloc_unlink"
       ELSE IF talloc_check(CurAlloc, AlignUp(256))
            THEN bs_result' = 0 /\ bs_pc' = "no return"
            ELSE bs_result' = next_free_temp_memory /\ bs_pc' = "talloc_bump"
    /\ UNCHANGED <<current_proc, cpuPos, cpuEL, irqMasked, bs_s, bs_draws, svc_buf, svc_n,
                   alloc_overlap>>
    /\ AllocSame /\ PreFrame

\* ram_e.c:141-143: *curr = (*curr)->next; return result, or
\* ram_e.c:154-155: next_free_temp_memory += size; return result
talloc_store ==
    /\ current_proc = BOOTSCREEN /\ bs_pc \in {"talloc_unlink", "talloc_bump"}
    /\ IF bs_pc = "talloc_unlink"
       THEN /\ temp_free_list' = heapHdr[bs_result].next
            /\ UNCHANGED next_free_temp_memory
       ELSE /\ next_free_temp_memory' = U64(next_free_temp_memory + AlignUp(256))
            /\ UNCHANGED temp_free_list
    /\ bs_s' = bs_result
    /\ bs_result' = 0
    /\ bs_pc' = "holding"
    /\ UNCHANGED <<next_free_perm_memory, heapHdr>>
    /\ UNCHANGED <<current_proc, cpuPos, cpuEL, irqMasked, bs_draws, svc_buf, svc_n,
                   alloc_overlap>>
    /\ PreFrame

\* bootscreen.c:37: temp_free(s.data, 256), and back to the loop of bootscreen
boot_draw_name_free ==
    /\ current_proc = BOOTSCREEN /\ bs_pc = "holding"
    /\ SetAlloc(temp_free_core(CurAlloc, bs_s, 256))
    /\ bs_s' = 0
    /\ bs_pc' = "draw"
    /\ UNCHANGED <<current_proc, cpuPos, cpuEL, irqMasked, bs_result, bs_draws, svc_buf,
                   svc_n, alloc_overlap>>
    /\ PreFrame

\* the timer IRQ taken with PSTATE.I clear: irq_el1_handler, switch_proc to
\* the other process, restore_context with PSTATE from its spsr
timer_preempt ==
    /\ ~irqMasked /\ svc_buf = 0
    /\ bs_pc # "no return"
    /\ \E sel \in {switch_proc_select(processes, current_proc, proc_count)} :
          /\ current_proc' = sel
          /\ cpuPos' = BodyPos(sel)
          /\ cpuEL' = SpsrEL(processes[sel].spsr)
          /\ irqMasked' = SpsrMasksIrq(processes[sel].spsr)
    /\ UNCHANGED <<bs_pc, bs_result, bs_s, bs_draws, svc_buf, svc_n, alloc_overlap>>
    /\ AllocSame /\ PreFrame

\* proc_func executes svc #3: sync_el0_handler_c, entered with PSTATE.I set,
\* calls printf_args_raw (syscall.c:45): string_format_args takes its buffer
\* from talloc
svc_printf_talloc ==
    /\ current_proc = PROC_FUNC /\ svc_buf = 0 /\ svc_n < MaxSvcPrints
    /\ svc_n' = svc_n + 1
    /\ irqMasked' = TRUE
    /\ cpuEL' = 1
    /\ LET r == tallocCore(CurAlloc, 256)
       IN  /\ r.how \in {"list", "bump"}
           /\ SetAlloc(r.a)
           /\ svc_buf' = r.ret
    /\ alloc_overlap' = (alloc_overlap \/ InAllocator)
    /\ UNCHANGED <<current_proc, cpuPos, bs_pc, bs_result, bs_s, bs_draws>>
    /\ PreFrame

\* kio.c:45-47 and syscall.c:48: the line is printed, temp_free(s.data, 256),
\* eret to proc_func
svc_printf_free ==
    /\ current_proc = PROC_FUNC /\ svc_buf # 0
    /\ SetAlloc(temp_free_core(CurAlloc, svc_buf, 256))
    /\ svc_buf' = 0
    /\ irqMasked' = FALSE
    /\ cpuEL' = 0
    /\ alloc_overlap' = (alloc_overlap \/ InAllocator)
    /\ UNCHANGED <<current_proc, cpuPos, bs_pc, bs_result, bs_s, bs_draws, svc_n>>
    /\ PreFrame

PreNext ==
    \/ bootscreen_gpu_clear
    \/ boot_draw_name_talloc
    \/ talloc_read
    \/ talloc_store
    \/ boot_draw_name_free
    \/ timer_preempt
    \/ svc_printf_talloc
    \/ svc_printf_free

-----------------------------------------------------------------------------
(* kernel/mmu.c : mmu_init.  One action per test of a loop condition, with   *)
(* the mapping call of the iteration when the test passes.                   *)

GRANULE_4KB == 4096
GRANULE_2MB == 2097152
MAIR_IDX_DEVICE == 0
MAIR_IDX_NORMAL == 1
UART0_BASE == 150994944                  \* 0x09000000
GICD_BASE == 134217728                   \* 0x08000000
GICD_SPAN == 73728                       \* 0x12000

\* the tables after mmu_map_2mb(va, pa, attr_index) on the tables st
map_2mb_tables(st, va, pa, attr_index) ==
    LET w == WalkFrom(st, va)
        attr == PD_ACCESS \cup {8, 9} \cup Shl(Bits(attr_index), 2) \cup PD_BLOCK
    IN  [pt |-> Put(w.st.pt, w.l3, TableIndex(va, 21), (Bits(pa) \cap AddrMask) \cup attr),
         n |-> w.st.n]

\* the tables after mmu_map_4kb(va, pa, attr_index, level) on the tables st
map_4kb_tables(st, va, pa, attr_index, level, shifted) ==
    LET w == WalkFrom(st, va)
        l3_val == Entry(w.st.pt, w.l3, TableIndex(va, 21))
        s3 == EnsureTable(w.st, w.l3, TableIndex(va, 21))
        l4 == NextTable(s3, w.l3, TableIndex(va, 21))
    IN  IF 0 \in l3_val /\ (l3_val \cap {0, 1}) = PD_BLOCK
        THEN w.st
        ELSE [pt |-> Put(s3.pt, l4, TableIndex(va, 12),
                         (Bits(pa) \cap AddrMask) \cup PageAttr(attr_index, level, shifted)),
              n |-> s3.n]

Layout(ks, ke, ss, se) ==
    [kernel_start |-> ks, kcode_end |-> ke, shared_start |-> ss, shared_end |-> se]

\* the linker layouts explored: the image at the start of RAM or 512 KiB
\* above it, ending in the same 2 MiB region or a later one, and the shared
\* region after the image or inside it
Layouts ==
    { Layout(1073741824, 1074790400, 1077936128, 1077940224),   \* 0x40000000-0x40100000, shared 0x40400000
      Layout(1074266112, 1074790400, 1077936128, 1077940224),   \* 0x40080000-0x40100000
      Layout(1074266112, 1075904512, 1077936128, 1077940224),   \* 0x40080000-0x40210000
      Layout(1073741824, 1078001664, 1082130432, 1082130432),   \* 0x40000000-0x40410000, shared 0x40800000
      Layout(1073741824, 1074790400, 1074069504, 1074073600) }  \* shared 0x40050000 inside the image

MiIdle ==
    /\ mi_pc = "idle"
    /\ mi_addr = 0
    /\ mi_layout = [l |-> Layout(0, 0, 0, 0), shifted |-> {}]

\* the machine at the call of mmu_init
MiInit ==
    /\ mi_pc = "clear"
    /\ mi_addr = 0
    /\ mi_layout \in [l : Layouts, shifted : ShiftOutcomes(1)]

MiFrame == UNCHANGED <<allocVars, kernVars, vqVars, vqBufVars, gpuVars, relocVars,
                       dtbVars, auxOtherThanMi, mmu_last, mmu_calls, mi_layout>>

MiTables == [pt |-> mmu_pt, n |-> mmu_ntables]

\* for (i...) page_table_l1[i] = 0; start = mem_get_kmem_start()
mmu_init_clear ==
    /\ mi_pc = "clear"
    /\ mmu_pt' = <<>>
    /\ mmu_ntables' = mmu_ntables
    /\ mi_addr' = mi_layout.l.kernel_start
    /\ mi_pc' = "kernel"
    /\ MiFrame

\* a loop of mmu_init: the test addr <= last, the mapping call, addr += step
MiLoop(pc, last, step, mapped, next_pc, next_addr) ==
    /\ mi_pc = pc
    /\ IF mi_addr <= last
       THEN /\ mmu_pt' = mapped.pt
            /\ mmu_ntables' = mapped.n
            /\ mi_addr' = mi_addr + step
            /\ mi_pc' = pc
       ELSE /\ UNCHANGED <<mmu_pt, mmu_ntables>>
            /\ mi_addr' = next_addr
            /\ mi_pc' = next_pc
    /\ MiFrame

mmu_init_kernel ==
    MiLoop("kernel", mi_layout.l.kcode_end, GRANULE_2MB,
           map_2mb_tables(MiTables, mi_addr, mi_addr, MAIR_IDX_NORMAL),
           "uart", UART0_BASE)

mmu_init_uart ==
    MiLoop("uart", UART0_BASE, GRANULE_4KB,
           map_4kb_tables(MiTables, mi_addr, mi_addr, MAIR_IDX_DEVICE, 1, mi_layout.shifted),
           "gicd", GICD_BASE)

mmu_init_gicd ==
    MiLoop("gicd", GICD_BASE + GICD_SPAN, GRANULE_4KB,
           map_4kb_tables(MiTables, mi_addr, mi_addr, MAIR_IDX_DEVICE, 1, mi_layout.shifted),
           "shared", mi_layout.l.shared_start)

mmu_init_shared ==
    MiLoop("shared", mi_layout.l.shared_end, GRANULE_4KB,
           map_4kb_tables(MiTables, mi_addr, mi_addr, MAIR_IDX_NORMAL, 2, {}),
           "enable", 0)

\* MAIR_EL1, TCR_EL1, TTBR0_EL1, SCTLR_EL1.M
mmu_init_enable ==
    /\ mi_pc = "enable"
    /\ mi_pc' = "done"
    /\ UNCHANGED <<mmu_pt, mmu_ntables, mi_addr>>
    /\ MiFrame

MiNext ==
    \/ mmu_init_clear
    \/ mmu_init_kernel
    \/ mmu_init_uart
    \/ mmu_init_gicd
    \/ mmu_init_shared
    \/ mmu_init_enable

-----------------------------------------------------------------------------
(* kernel/process/proc_allocator.c : alloc_proc_mem.  mem_table_l1 and the   *)
(* tables below it are kept as the set of the pages they map: the indexes of *)
(* the walk are the bit fields 47..39, 38..30, 29..21 and 20..12 of the      *)
(* address, so each page has one L4 entry of its own.  A page is named by    *)
(* its number counted from user_ram_start.  The mapping register_proc_memory *)
(* adds to the kernel's tables is left out.                                  *)

PAGE_TABLE_ENTRIES == 512

\* user RAM as calc_ram computes it: both ends on 2 MiB boundaries
user_ram_start == 1077936128             \* 0x40400000
UserRamPages == 512
user_ram_end == user_ram_start + UserRamPages * 4096

\* alloc_proc_mem and create_process calls explored
MaxProcAllocs == 3

\* size = ((size + PAGE_SIZE - 1) / PAGE_SIZE) * PAGE_SIZE with PAGE_SIZE
\* replaced by its text PAGE_TABLE_ENTRIES * 8: C evaluates / and * from the
\* left, ((size + 512 * 8 - 1) / 512 * 8) * 512 * 8
align_size(size) ==
    ((((size + PAGE_TABLE_ENTRIES * 8 - 1) \div PAGE_TABLE_ENTRIES) * 8) * PAGE_TABLE_ENTRIES) * 8

\* the same with PAGE_SIZE taken as the number 4096
align_size_4096(size) == ((size + 4096 - 1) \div 4096) * 4096

PageNo(va) == (va - user_ram_start) \div 4096

\* lines 116-133 left out: every run counts as free
RunFreeUnchecked(mapped, va, size) == TRUE

\* lines 116-133: the pages of [va, va + size) are all unmapped
RunFree(mapped, va, size) ==
    \A k \in 0 .. ((size + 4095) \div 4096 - 1) : PageNo(va) + k \notin mapped

\* lines 135-138: proc_map_4kb for each page of [va, va + size)
MapRun(mapped, va, size) ==
    mapped \cup {PageNo(va) + k : k \in 0 .. ((size + 4095) \div 4096 - 1)}

\* alloc_proc_mem(size): the address returned (0: none) and the pages mapped
\* afterwards; va goes up from start in steps of PAGE_TABLE_ENTRIES * 8
alloc_proc_mem(mapped, size) ==
    LET sz == align_size(size)
        fits == {p \in 0 .. (UserRamPages - 1) :
                    /\ user_ram_start + p * PAGE_TABLE_ENTRIES * 8 + sz <= user_ram_end
                    /\ RunFree(mapped, user_ram_start + p * PAGE_TABLE_ENTRIES * 8, sz)}
        first == CHOOSE p \in fits : \A q \in fits : p <= q
        va == user_ram_start + first * PAGE_TABLE_ENTRIES * 8
    IN  IF fits = {} THEN [ret |-> 0, mapped |-> mapped]
        ELSE [ret |-> va, mapped |-> MapRun(mapped, va, sz)]

\* sizes asked for: a byte, a page (the stack of create_process), a little
\* more than three pages, and 2 MiB
ProcSizes == {1, 4096, 12289, 2097152}

NoAlloc == [size |-> 0, ret |-> 0, before |-> {}]

PmIdle ==
    /\ pm_mapped = {}
    /\ pm_regions = <<>>
    /\ pm_last = NoAlloc
    /\ pm_calls = 0
    /\ pm_procs = <<>>
    /\ pm_count = 0

PmFrame == UNCHANGED <<allocVars, kernVars, vqVars, vqBufVars, otherThanAux, auxOtherThanPm>>

\* a call of alloc_proc_mem(size) by any caller
alloc_proc_mem_call(size) ==
    /\ pm_calls < MaxProcAllocs
    /\ \E r \in {alloc_proc_mem(pm_mapped, size)} :
          /\ pm_mapped' = r.mapped
          /\ pm_last' = [size |-> size, ret |-> r.ret, before |-> pm_mapped]
          /\ pm_regions' = IF r.ret = 0 THEN pm_regions
                           ELSE Append(pm_regions, [size |-> size, va |-> r.ret])
    /\ pm_calls' = pm_calls + 1
    /\ UNCHANGED <<pm_procs, pm_count>>
    /\ PmFrame

\* create_process, lines 187-193, with sp = stack: the record written
create_process_record_nosize(code_dest, stack, count) ==
    [pc |-> code_dest, sp |-> stack, spsr |-> SPSR_EL0, state |-> "READY", id |-> count]

\* create_process, lines 187-193: the record written into processes[proc_count]
create_process_record(code_dest, stack, count) ==
    [pc |-> code_dest, sp |-> stack + 4096, spsr |-> SPSR_EL0, state |-> "READY", id |-> count]

\* the regions a sequence of successful allocations adds to the log
Logged(regions, size, ret) ==
    IF ret = 0 THEN regions ELSE Append(regions, [size |-> size, va |-> ret])

\* create_process(func, code_size, func_base, data, data_size): the three
\* alloc_proc_mem calls, each followed by its test for 0, and the record.
\* relocate_code and the copy of the data write into the new regions only.
create_process_mem(data_size, code_size) ==
    /\ pm_calls < MaxProcAllocs
    /\ IF pm_count >= MAX_PROCS
       THEN UNCHANGED <<pm_mapped, pm_regions, pm_last, pm_procs, pm_count>>
       ELSE \E d \in {alloc_proc_mem(pm_mapped, data_size)} :
            \E c \in {IF d.ret = 0 THEN d ELSE alloc_proc_mem(d.mapped, code_size)} :
            \E k \in {IF c.ret = 0 THEN c ELSE alloc_proc_mem(c.mapped, 4096)} :
                /\ pm_mapped' = k.mapped
                /\ pm_regions' =
                      IF d.ret = 0 THEN pm_regions
                      ELSE IF c.ret = 0 THEN Logged(pm_regions, data_size, d.ret)
                      ELSE Logged(Logged(Logged(pm_regions, data_size, d.ret),
                                         code_size, c.ret), 4096, k.ret)
                /\ pm_last' = [size |-> IF d.ret = 0 THEN data_size
                                        ELSE IF c.ret = 0 THEN code_size ELSE 4096,
                               ret |-> k.ret,
                               before |-> IF d.ret = 0 THEN pm_mapped
                                          ELSE IF c.ret = 0 THEN d.mapped ELSE c.mapped]
                /\ IF k.ret = 0
                   THEN UNCHANGED <<pm_procs, pm_count>>
                   ELSE /\ pm_procs' = Append(pm_procs,
                                              create_process_record(c.ret, k.ret, pm_count))
                        /\ pm_count' = pm_count + 1
    /\ pm_calls' = pm_calls + 1
    /\ PmFrame

\* the sizes default_processes and other callers pass: a few bytes of
\* read-only data or a page of it, a short function or one of three pages
DataSizes == {11, 4096}
CodeSizes == {64, 12289}

PmNext ==
    \/ \E size \in ProcSizes : alloc_proc_mem_call(size)
    \/ \E data_size \in DataSizes, code_size \in CodeSizes :
          create_process_mem(data_size, code_size)

-----------------------------------------------------------------------------
(* kernel processes that draw: the loop of bootscreen (bootscreen.c) run by  *)
(* two kernel processes, each statement of vgp_send_command a step, the     *)
(* timer IRQ switching between them                                          *)

\* calls of gpu_clear by each process
MaxClears == 1
\* the commands of one vgp_clear: vgp_transfer_to_host (driver line 653), then
\* vgp_flush (654): vgp_transfer_to_host (607) and RESOURCE_FLUSH (623)
ClearCommands == 3

Drawers == {0, 1}

NoDraw == [pc |-> "none", left |-> 0, last_used_idx |-> 0, panic |-> FALSE, calls |-> 0]

DrawIdle == drawers = [p \in Drawers |-> NoDraw]

\* the scheduler has started process 0; both processes are kernel processes
\* (spsr 0x3C5) at the top of the loop of bootscreen; the timer is armed
DrawInit ==
    /\ processes = [i \in Procs |->
                      IF i \in Drawers
                      THEN [state |-> "READY", spsr |-> SPSR_EL1H_MASKED,
                            pc |-> BodyPos(i), id |-> i]
                      ELSE [state |-> "READY", spsr |-> 0, pc |-> NoPos, id |-> 0]]
    /\ proc_count = 2
    /\ current_proc = 0
    /\ cpuPos = BodyPos(0)
    /\ cpuEL = 1
    /\ irqMasked = TRUE
    /\ timerOn = TRUE
    /\ timerPending = FALSE
    /\ panicked = FALSE
    /\ panicProc = 0
    /\ restoredAfterPanic = FALSE
    /\ lastRestore = [valid |-> TRUE, proc |-> 0, masked |-> TRUE]
    /\ switchLog = <<0>>
    /\ lastSvc = NoSvc
    /\ svcOut = <<>>
    /\ panicOut = <<>>
    /\ drawers = [p \in Drawers |-> [NoDraw EXCEPT !.pc = "body"]]

\* what the statements of the drawing processes leave alone
DrawFrame ==
    /\ UNCHANGED <<processes, proc_count, timerOn, timerPending, restoredAfterPanic,
                   lastRestore, switchLog, lastSvc, svcOut>>
    /\ UNCHANGED <<live, lastCall, prevCall, allocOps>>
    /\ UNCHANGED <<vq_pc, vq_flags, last_used_idx, entryUsed, vqCalls>>
    /\ UNCHANGED <<vq_resp, respBuf, dispInfoBuf, device_status, queue_enable>>
    /\ UNCHANGED <<otherThanAux, auxOtherThanDraw>>
DrawCpuSame == UNCHANGED <<current_proc, cpuPos, cpuEL>>
DrawPanicSame == UNCHANGED <<panicked, panicProc, panicOut>>
DrawQueueSame == UNCHANGED <<desc, avail, used, notified, dev_last_avail, dev_head>>

\* the running process is at pc
DrawAt(pc) == cpuPos = BodyPos(current_proc) /\ drawers[current_proc].pc = pc

\* the running process moves to pc
DrawTo(pc) == drawers' = [drawers EXCEPT ![current_proc].pc = pc]

\* vgp_clear up to its first command: printf("Clear screen") (driver line 646)
\* is a kprintf_args and ends with enable_interrupt(); the framebuffer is
\* filled
vgp_clear_enter(from_panic) ==
    /\ DrawAt("body")
    /\ drawers[current_proc].calls < MaxClears
    /\ LET f == format_alloc(CurAlloc, 0)
       IN  f.how = "ok" /\ SetAlloc(f.a)
    /\ irqMasked' = FALSE
    /\ drawers' = [drawers EXCEPT ![current_proc] =
                      [@ EXCEPT !.pc = "cmd", !.left = ClearCommands, !.panic = from_panic,
                                !.calls = @ + 1]]
    /\ UNCHANGED cmdType
    /\ DrawCpuSame /\ DrawQueueSame /\ DrawFrame

\* bootscreen.c:89, gpu_clear(0)
draw_gpu_clear ==
    /\ vgp_clear_enter(FALSE)
    /\ DrawPanicSame

\* bootscreen.c:143, panic_with_info("Failed to load", 0x12345), whose first
\* statement is gpu_clear(0x0000FF) (exception_handler.c:62)
draw_panic_with_info ==
    /\ vgp_clear_enter(TRUE)
    /\ panicked' = TRUE
    /\ panicProc' = IF panicked THEN panicProc ELSE current_proc
    /\ UNCHANGED panicOut

\* the command of vgp_clear that is sent when left commands remain
ClearCommand(left) ==
    IF left = 1 THEN VIRTIO_GPU_CMD_RESOURCE_FLUSH ELSE VIRTIO_GPU_CMD_TRANSFER_TO_HOST_2D

\* vgp_transfer_to_host or vgp_flush fills the command buffer and calls
\* vgp_send_command
draw_send_enter ==
    /\ DrawAt("cmd")
    /\ cmdType' = ClearCommand(drawers[current_proc].left)
    /\ DrawTo("desc0")
    /\ UNCHANGED irqMasked
    /\ AllocSame /\ DrawCpuSame /\ DrawPanicSame /\ DrawQueueSame /\ DrawFrame

\* a statement of vgp_send_command that leaves the process at pc `to`
DrawStep(from, to) ==
    /\ DrawAt(from)
    /\ DrawTo(to)
    /\ UNCHANGED <<irqMasked, cmdType>>
    /\ AllocSame /\ DrawCpuSame /\ DrawPanicSame /\ DrawFrame

\* driver lines 347-350
draw_desc0 ==
    /\ DrawStep("desc0", "desc1")
    /\ desc' = [desc EXCEPT ![0] = [addr |-> "VIRTQUEUE_CMD", flags |-> VIRTQ_DESC_F_NEXT,
                                    next |-> 1]]
    /\ UNCHANGED <<avail, used, notified, dev_last_avail, dev_head>>

\* driver lines 352-355
draw_desc1 ==
    /\ DrawStep("desc1", "avail_ring")
    /\ desc' = [desc EXCEPT ![1] = [addr |-> "VIRTQUEUE_RESP", flags |-> VIRTQ_DESC_F_WRITE,
                                    next |-> 0]]
    /\ UNCHANGED <<avail, used, notified, dev_last_avail, dev_head>>

\* driver line 357
draw_avail_ring ==
    /\ DrawStep("avail_ring", "avail_idx")
    /\ avail' = avail_ring_store(avail)
    /\ UNCHANGED <<desc, used, notified, dev_last_avail, dev_head>>

\* driver line 358: the chain is published
draw_avail_idx ==
    /\ DrawStep("avail_idx", "notify")
    /\ avail' = avail_idx_incr(avail)
    /\ UNCHANGED <<desc, used, notified, dev_last_avail, dev_head>>

\* driver line 360
draw_notify ==
    /\ DrawStep("notify", "read_used")
    /\ notified' = TRUE
    /\ UNCHANGED <<desc, avail, used, dev_last_avail, dev_head>>

\* driver line 362: uint16_t last_used_idx = used->idx
draw_read_used ==
    /\ DrawAt("read_used")
    /\ drawers' = [drawers EXCEPT ![current_proc] =
                      [@ EXCEPT !.pc = "spin", !.last_used_idx = used.idx]]
    /\ UNCHANGED <<irqMasked, cmdType>>
    /\ AllocSame /\ DrawCpuSame /\ DrawPanicSame /\ DrawQueueSame /\ DrawFrame

\* driver lines 363-364: the loop ends and vgp_send_command returns; the
\* caller prints the response type (two %h) and the OK line, each print ending
\* with enable_interrupt().  After the last command of a vgp_clear called by
\* panic_with_info the panic text is formatted and printed and the halt loop
\* is entered; otherwise bootscreen goes round its loop.
draw_spin_exit ==
    /\ DrawAt("spin")
    /\ drawers[current_proc].last_used_idx # used.idx
    /\ LET me == drawers[current_proc]
           last == (me.left = 1)
           f == prints_alloc(CurAlloc, <<2, 0>>)
           g == IF last /\ me.panic THEN string_format_alloc(f.a, 1) ELSE f
       IN  /\ f.how = "ok" /\ g.how = "ok"
           /\ SetAlloc(g.a)
           /\ drawers' = [drawers EXCEPT ![current_proc] =
                             [@ EXCEPT !.pc = IF ~last THEN "cmd"
                                              ELSE IF me.panic THEN "halt" ELSE "body",
                                       !.left = @ - 1, !.last_used_idx = used.idx]]
           /\ panicOut' = IF last /\ me.panic
                          THEN <<"*** CRAYON DOESN'T DRAW ANYMORE ***", "Failed to load", "\n",
                                 "Additional info: ">> \o uart_puthex(74565)
                                 \o <<"\n", "System Halted">>
                          ELSE panicOut
    /\ irqMasked' = FALSE
    /\ UNCHANGED <<cmdType, panicked, panicProc>>
    /\ DrawCpuSame /\ DrawQueueSame /\ DrawFrame

\* the timer IRQ taken with PSTATE.I clear: irq_el1_handler, switch_proc to
\* the other process, restore_context with PSTATE from its spsr
draw_timer_preempt ==
    /\ ~irqMasked /\ timerOn
    /\ \E sel \in {switch_proc_select(processes, current_proc, proc_count)} :
          /\ sel # current_proc
          /\ current_proc' = sel
          /\ cpuPos' = BodyPos(sel)
          /\ cpuEL' = SpsrEL(processes[sel].spsr)
          /\ irqMasked' = SpsrMasksIrq(processes[sel].spsr)
    /\ UNCHANGED <<drawers, cmdType>>
    /\ AllocSame /\ DrawPanicSame /\ DrawQueueSame /\ DrawFrame

DrawNext ==
    \/ draw_gpu_clear
    \/ draw_panic_with_info
    \/ draw_send_enter
    \/ draw_desc0
    \/ draw_desc1
    \/ draw_avail_ring
    \/ draw_avail_idx
    \/ draw_notify
    \/ draw_read_used
    \/ draw_spin_exit
    \/ draw_timer_preempt
    \/ device_take_chain
    \/ device_publish_used

AuxIdle == FwIdle /\ TblIdle /\ IrqIdle /\ ConIdle /\ PreIdle /\ MiIdle /\ PmIdle /\ DrawIdle

-----------------------------------------------------------------------------

KernInit ==
    /\ processes = [i \in Procs |-> [state |-> "READY", spsr |-> 0, pc |-> NoPos, id |-> 0]]
    /\ current_proc = 0
    /\ proc_count = 0
    /\ cpuPos = BootPos
    /\ cpuEL = 1
    /\ irqMasked = TRUE
    /\ timerOn = FALSE
    /\ timerPending = FALSE
    /\ panicked = FALSE
    /\ panicProc = 0
    /\ restoredAfterPanic = FALSE
    /\ lastRestore = [valid |-> FALSE, proc |-> 0, masked |-> FALSE]
    /\ switchLog = <<>>
    /\ lastSvc = NoSvc
    /\ svcOut = <<>>
    /\ panicOut = <<>>

\* the parts of the machine a specification does not explore
ExtIdle == RelocIdle /\ MmuInit /\ DtbIdle /\ AuxIdle

\* everything but the allocator, the kernel and the virtqueue at rest
RestIdle == GpuIdle /\ RelocIdle /\ MmuInit /\ DtbIdle

Init == AllocInit /\ KernInit /\ VqInit(0) /\ GpuIdle /\ ExtIdle

InitVq == AllocInit /\ KernInit /\ GpuIdle /\ ExtIdle /\ \E k \in StartIdx : VqInit(k)

InitGpu == AllocInit /\ KernInit /\ VqInit(0) /\ GpuInit /\ ExtIdle

InitReloc == AllocInit /\ KernInit /\ VqInit(0) /\ GpuIdle /\ RelocInit /\ MmuInit /\ DtbIdle /\ AuxIdle

InitMmu == AllocInit /\ KernInit /\ VqInit(0) /\ GpuIdle /\ RelocIdle /\ MmuInit /\ DtbIdle /\ AuxIdle

InitDtb == AllocInit /\ KernInit /\ VqInit(0) /\ GpuIdle /\ RelocIdle /\ MmuInit /\ DtbInit /\ AuxIdle

InitFw == AllocInit /\ KernInit /\ VqInit(0) /\ RestIdle /\ FwInit /\ TblIdle /\ IrqIdle /\ ConIdle /\ PreIdle /\ MiIdle /\ PmIdle /\ DrawIdle

InitSwitch == AllocInit /\ VqInit(0) /\ RestIdle /\ AuxIdle /\ SwitchInit

InitTbl == AllocInit /\ VqInit(0) /\ RestIdle /\ FwIdle /\ IrqIdle /\ ConIdle /\ PreIdle /\ TblInit /\ MiIdle /\ PmIdle /\ DrawIdle

InitPre == AllocInit /\ VqInit(0) /\ RestIdle /\ FwIdle /\ TblIdle /\ IrqIdle /\ ConIdle /\ PreInit /\ MiIdle /\ PmIdle /\ DrawIdle

\* boot code about to use the console
InitCon == Init

InitPm == Init

InitMi == AllocInit /\ KernInit /\ VqInit(0) /\ RestIdle /\ FwIdle /\ TblIdle /\ IrqIdle /\ ConIdle /\ PreIdle /\ MiInit /\ PmIdle /\ DrawIdle

KernNext ==
    \/ create_kernel_process
    \/ create_process
    \/ kernel_main_timer
    \/ start_scheduler
    \/ timer_fire
    \/ irq_el1_handler
    \/ call_panic_with_info
    \/ \E t \in FatalTraps : handle_exception(t)
    \/ \E nhex \in 0 .. 2 : kprintf_args(nhex)
    \/ \E c \in SvcCalls : sync_el0_handler_c(c)

\* the allocator interface driven by arbitrary callers
SpecAlloc == Init /\ [][AllocNext]_vars

\* the kernel: boot, process creation, scheduling, syscalls, panics
Spec == Init /\ [][KernNext]_vars

\* one caller of vgp_send_command at a time, and the device
SpecVq == InitVq /\ [][VqNext]_vars

\* the same, with a caller that keeps executing its statements and a device
\* that takes every chain it has been notified of and publishes every chain
\* it has taken
VqFairness ==
    /\ WF_vars(vsc_desc0) /\ WF_vars(vsc_desc1)
    /\ WF_vars(vsc_avail_ring) /\ WF_vars(vsc_avail_idx)
    /\ WF_vars(vsc_notify) /\ WF_vars(vsc_read_used) /\ WF_vars(vsc_spin_exit)
    /\ WF_vars(device_take_chain) /\ WF_vars(device_publish_used)

SpecVqLive == InitVq /\ [][VqNext]_vars /\ VqFairness

\* gpu_init on machines with and without virtio-gpu and fw_cfg, and the device
SpecGpu == InitGpu /\ [][GpuNext]_vars

\* relocate_code applied to one-instruction blobs: src to dst1, dst1 to dst2, src to dst2
SpecReloc == InitReloc /\ [][RelocNext]_vars

\* mmu_map_2mb and mmu_map_4kb called in any order
SpecMmu == InitMmu /\ [][MmuNext]_vars

\* alloc_proc_mem and create_process called in any order on empty user RAM
SpecProcMem == InitPm /\ [][PmNext]_vars

\* kernel code using the transient allocator until it is exhausted
InitOom == Init
SpecOom == InitOom /\ [][OomNext]_vars

\* two kernel processes drawing, the timer and the device
InitDraw == AllocInit /\ VqInit(0) /\ RestIdle /\ FwIdle /\ TblIdle /\ IrqIdle /\ ConIdle /\ PreIdle /\ MiIdle /\ PmIdle /\ DrawInit
SpecDraw == InitDraw /\ [][DrawNext]_vars

\* mmu_init on each linker layout
SpecMmuInit == InitMi /\ [][MiNext]_vars

\* get_memory_region called once on a flattened tree
SpecDtb == InitDtb /\ [][DtbNext]_vars

\* fw_find_file called once on a directory
SpecFw == InitFw /\ [][FwNext]_vars

\* start_scheduler and the timer IRQ on tables with entries in any state
SpecSwitch == InitSwitch /\ [][SwitchNext]_vars

\* the bootscreen process and proc_func under the timer
SpecPre == InitPre /\ [][PreNext]_vars

\* uart_puthex and kprintf_args called one after the other
SpecCon == InitCon /\ [][ConNext]_vars

\* create_process and create_kernel_process called on a table about to fill
SpecTbl == InitTbl /\ [][TblNext]_vars
-----------------------------------------------------------------------------
(* Claims about the allocators, checked under SpecAlloc *)

RegionBound(op) == IF op = "talloc" THEN temp_start ELSE heap_limit

\* C2: every address a returned by talloc or palloc is a multiple of 4096 and
\* a + round_up(size, 4096) does not pass the upper bound of its region.
C2_ReturnedInBounds ==
    (lastCall.op \in {"talloc", "palloc"} /\ lastCall.how \in {"list", "bump"})
        => /\ lastCall.ret % PAGE = 0
           /\ lastCall.ret + RoundUp(lastCall.req) <= RegionBound(lastCall.op)

\* C3: neither bump pointer ever decreases, whatever the 64-bit request size.
C3_BumpPointersMonotone ==
    [][/\ next_free_temp_memory' >= next_free_temp_memory
       /\ next_free_perm_memory' >= next_free_perm_memory]_vars

\* C4: tfree(p, s) immediately followed by talloc(s) returns p, for every
\* block p talloc handed out and every size s, whatever is already on the
\* free list.
C4_FreeThenAllocReturnsBlock ==
    (prevCall.op = "tfree" /\ lastCall.op = "talloc" /\ lastCall.req = prevCall.req)
        => (lastCall.how = "list" /\ lastCall.ret = prevCall.ptr)

\* C5: tfree changes only the free-list head and the header of the freed block
\* and leaves both bump pointers alone; a talloc served from the free list
\* leaves both bump pointers alone; a palloc that returns leaves the transient
\* pointer and the free list (head and headers) alone.
C5_FreeListFrame ==
    [][/\ (lastCall'.op = "tfree") =>
            /\ next_free_temp_memory' = next_free_temp_memory
            /\ next_free_perm_memory' = next_free_perm_memory
            /\ temp_free_list' = lastCall'.ptr
            /\ \A p \in PageAddrs \ {lastCall'.ptr} : heapHdr'[p] = heapHdr[p]
       /\ (lastCall'.op = "talloc" /\ lastCall'.how = "list") =>
            /\ next_free_temp_memory' = next_free_temp_memory
            /\ next_free_perm_memory' = next_free_perm_memory
       /\ (lastCall'.op = "palloc" /\ lastCall'.how = "bump") =>
            /\ next_free_temp_memory' = next_free_temp_memory
            /\ temp_free_list' = temp_free_list
            /\ heapHdr' = heapHdr]_vars

\* a talloc served from the free list after a tfree and a palloc have acted
C5_Witness ==
    /\ lastCall.op = "talloc" /\ lastCall.how = "list"
    /\ next_free_perm_memory > temp_start
    /\ next_free_temp_memory > heap_bottom

-----------------------------------------------------------------------------
(* Scheduler, panic and syscall claims (specification Spec) *)

SeqElems(q) == {q[i] : i \in DOMAIN q}

\* C1: round-robin fairness of switch_proc.  With n >= 1 processes in the
\* table, all READY, and no change to the table, any n consecutive
\* invocations of switch_proc make each process index current exactly once.
\* switchLog holds the indices the last n invocations made current and is
\* emptied whenever the table changes.
C1_RoundRobinFair ==
    (/\ proc_count >= 1
     /\ Len(switchLog) = proc_count
     /\ \A i \in 0 .. (proc_count - 1) : processes[i].state = "READY")
    => \A i \in 0 .. (proc_count - 1) :
          Cardinality({k \in 1 .. Len(switchLog) : switchLog[k] = i}) = 1

C1_Witness ==
    /\ proc_count = 3
    /\ Len(switchLog) = 3
    /\ \A i \in 0 .. 2 : processes[i].state = "READY"
    /\ switchLog[3] = 1

\* C7: once a panic is entered (panic or panic_with_info, whoever calls it),
\* the system stays halted: the CPU stays in the halt loop and current_proc
\* never changes again (no process is scheduled, no other context runs),
\* also when a timer IRQ becomes pending during the halt loop.
C7_PanicStaysHalted ==
    panicked => (cpuPos = HaltPos /\ current_proc = panicProc)

\* C8: a process entered through restore_context runs with IRQs unmasked by
\* its saved SPSR, so that the timer preempts every process the scheduler
\* starts (three kernel processes rotate on every timer IRQ).
C8_RestoredWithIrqsUnmasked ==
    lastRestore.valid => ~lastRestore.masked

\* C9: an SVC from EL0 whose x8 is not 3 produces a panic whose UART output
\* contains "UNEXPECTED EL0 EXCEPTION", and the caller is not resumed.
C9_UnknownSyscallPanics ==
    (lastSvc.valid /\ lastSvc.x8 # PRINTF_SYSCALL)
    => /\ ~lastSvc.resumed
       /\ panicked
       /\ "UNEXPECTED EL0 EXCEPTION" \in SeqElems(svcOut \o panicOut)

\* C10: a printf syscall (x8 = 3, x0 = format, x1 = arguments, x2 = count)
\* that returns has emitted exactly the formatted text and one newline on the
\* UART and nothing else; for "%i" and 42 the output is exactly "42\n".
C10_PrintfSyscallOutput ==
    (lastSvc.valid /\ lastSvc.x8 = PRINTF_SYSCALL /\ lastSvc.resumed)
    => /\ svcOut = string_format_args(lastSvc.x0, lastSvc.x1, lastSvc.x2).buf \o <<"\n">>
       /\ (lastSvc.x0 = <<"%", "i">> /\ lastSvc.x1 = <<42>> /\ lastSvc.x2 = 1)
            => svcOut = <<"4", "2", "\n">>

-----------------------------------------------------------------------------
(* Virtqueue claim (specification SpecVq) *)

\* C6: virtqueue correctness.  For every call of vgp_send_command that
\* returns, used.idx has advanced by exactly one (as a 16-bit counter) since
\* the call was entered, and used.ring[(used.idx - 1) % 128].id is 0.
C6_UsedAdvancedByOne ==
    (vq_pc = "returned")
    => /\ used.idx = (entryUsed + 1) % IdxMod
       /\ used.ring[((used.idx + IdxMod - 1) % IdxMod) % QUEUE_SIZE] = 0

\* a call entered with used.idx = 65535 has returned (used.idx wrapped to 0)
C6_Witness ==
    /\ vq_pc = "returned"
    /\ entryUsed = IdxMod - 1
    /\ used.idx = 0

-----------------------------------------------------------------------------
(* Graphics bring-up claims (specification SpecGpu) *)

\* C11: when the virtio-gpu function is absent or the device does not keep
\* FEATURES_OK, no command is ever handed to the virtqueue, and once gpu_init
\* has passed vgp_init, vgp_init has returned false and rfb_init has been called.
C11_InitFailureFallsBack ==
    (~pciPresent \/ ~featuresOk) =>
        /\ sentLog = <<>>
        /\ (gpu_pc # "boot" => (vgp_ret = "false" /\ rfb_ret # "none"))

HasRamfb(dir) == \E i \in DOMAIN dir : dir[i].name = Name_ramfb

\* C12: without virtio-gpu, and with fw_cfg missing or its directory holding
\* no entry named etc/ramfb, rfb_init returns false, nothing is written by
\* fw_cfg DMA and gpu_ready() is false after gpu_init.
C12_NoRamfbSerialOnly ==
    (gpu_pc = "done" /\ ~pciPresent /\ (~fwPresent \/ ~HasRamfb(fwDir))) =>
        (rfb_ret = "false" /\ dmaLog = <<>> /\ ~gpu_ready)

AfterDisplayInfo == pciPresent /\ gpu_pc \notin {"boot", "GET_DISPLAY_INFO"}

LowestEnabled(pm) ==
    CHOOSE i \in Scanouts : pm[i].enabled # 0 /\ \A j \in 0 .. (i - 1) : pm[j].enabled = 0

\* C18: after vgp_get_display_info, scanout_found is true exactly when the
\* device reports an enabled scanout; then scanout_id is the lowest enabled
\* index, display_width and display_height are its size, and the framebuffer
\* request of vgp_init is display_width * display_height * 4 bytes.
C18_DisplayInfoSelectsScanout ==
    AfterDisplayInfo =>
        /\ scanout_found = (\E i \in Scanouts : devScanouts[i].enabled # 0)
        /\ scanout_found =>
              /\ scanout_id = LowestEnabled(devScanouts)
              /\ display_width = devScanouts[scanout_id].width
              /\ display_height = devScanouts[scanout_id].height
              /\ fbAllocSize = display_width * display_height * 4

\* C19: with every scanout disabled, SET_SCANOUT is never issued, and when
\* vgp_init(w, h) has returned, display_width = w, display_height = h,
\* scanout_found is false and RESOURCE_CREATE_2D has been issued.
C19_NoScanoutKeepsDefaults ==
    (pciPresent /\ devScanouts = NoPmodes) =>
        /\ VIRTIO_GPU_CMD_SET_SCANOUT \notin SeqElems(sentLog)
        /\ vgp_ret = "true" =>
              /\ display_width = prefSize.width
              /\ display_height = prefSize.height
              /\ ~scanout_found
              /\ VIRTIO_GPU_CMD_RESOURCE_CREATE_2D \in SeqElems(sentLog)

-----------------------------------------------------------------------------
(* Relocator claims (specification SpecReloc) *)

\* the target the architecture gives an instruction at address pc
ArchTarget(instr, pc) ==
    IF IsBranch(instr) THEN pc + Sext(Imm26(instr), 26) * 4
    ELSE IF IsBcond(instr) THEN pc + Sext(Imm19(instr), 19) * 4
    ELSE PageOf(pc) + Sext(Imm19(instr) * 4 + ImmLo(instr), 21) * 4096

InBlob(t) == t >= rl_cfg.src /\ t < rl_cfg.src + 4 * Len(rl_blob)
InData(t) == t >= rl_cfg.src_data /\ t < rl_cfg.src_data + rl_cfg.data_size
SrcPc(k) == rl_cfg.src + 4 * (k - 1)
Dst1Pc(k) == rl_cfg.dst1 + 4 * (k - 1)
Dst2Pc(k) == rl_cfg.dst2 + 4 * (k - 1)

\* C13: a B, BL or B.cond of the source whose target lies inside the blob
\* targets, in the copy at dst1, the corresponding location of the copy
\* (forward and backward offsets alike).
C13_InternalBranchesKeepOffset ==
    rl_at1 # <<>> =>
        \A k \in DOMAIN rl_blob :
            ((IsBranch(rl_blob[k]) \/ IsBcond(rl_blob[k]))
                /\ InBlob(ArchTarget(rl_blob[k], SrcPc(k)))) =>
                    ArchTarget(rl_at1[k], Dst1Pc(k)) - rl_cfg.dst1
                        = ArchTarget(rl_blob[k], SrcPc(k)) - rl_cfg.src

\* C14: a B or BL at word index i whose target T lies outside the blob is
\* written to dst1 with dst1 + i*4 + newOffset*4 = T, newOffset being the
\* sign-extended 26-bit immediate of the written word.
C14_ExternalBranchesKeepTarget ==
    rl_at1 # <<>> =>
        \A k \in DOMAIN rl_blob :
            (IsBranch(rl_blob[k]) /\ ~InBlob(ArchTarget(rl_blob[k], SrcPc(k)))) =>
                Dst1Pc(k) + Sext(Imm26(rl_at1[k]), 26) * 4 = ArchTarget(rl_blob[k], SrcPc(k))

\* C15: an ADRP at word index i whose target page P lies in the source data
\* region is written to dst1 so that the page of dst1 + i*4 plus the page
\* offset the written word encodes is dst1_data + (P - src_data).
C15_AdrpFollowsData ==
    rl_at1 # <<>> =>
        \A k \in DOMAIN rl_blob :
            (~IsBranch(rl_blob[k]) /\ ~IsBcond(rl_blob[k]) /\ IsAdrp(rl_blob[k])
                /\ InData(ArchTarget(rl_blob[k], SrcPc(k)))) =>
                    ArchTarget(rl_at1[k], Dst1Pc(k))
                        = rl_cfg.dst1_data + (ArchTarget(rl_blob[k], SrcPc(k)) - rl_cfg.src_data)

\* C16: at dst2, every branch and ADRP of the code relocated through dst1
\* has the target it has in the code relocated from src directly.
C16_RelocationComposes ==
    (rl_at2 # <<>> /\ rl_direct # <<>>) =>
        \A k \in DOMAIN rl_blob :
            (IsBranch(rl_blob[k]) \/ IsBcond(rl_blob[k]) \/ IsAdrp(rl_blob[k])) =>
                ArchTarget(rl_at2[k], Dst2Pc(k)) = ArchTarget(rl_direct[k], Dst2Pc(k))

-----------------------------------------------------------------------------
(* MMU builder claims (specification SpecMmu) *)

\* the descriptor the last mmu_map_4kb call stored in its L4 table
LastPageDescriptor == Entry(mmu_pt, mmu_last.tbl, TableIndex(mmu_last.va, 12))

\* C17: a page descriptor installed by mmu_map_4kb(va, pa, attr_index, level)
\* has valid/type bits 0b11, AF (bit 10), SH (bits 9:8) = 0b11, AttrIdx
\* (bits 4:2) = attr_index, AP (bits 7:6) = 01 for EL0, 00 for EL1 and 10 for
\* Shared, UXN (bit 54) exactly when level = 1, PXN (bit 53) clear, and the
\* output address of pa.
C17_PageDescriptorBits ==
    (mmu_last.op = "map_4kb" /\ mmu_last.installed) =>
        LET d == LastPageDescriptor
        IN  /\ {0, 1} \subseteq d
            /\ 10 \in d
            /\ {8, 9} \subseteq d
            /\ d \cap {2, 3, 4} = Shl(Bits(mmu_last.attr_index), 2)
            /\ d \cap {6, 7} = (CASE mmu_last.level = 0 -> {6}
                                  [] mmu_last.level = 1 -> {}
                                  [] mmu_last.level = 2 -> {7})
            /\ (54 \in d) <=> (mmu_last.level = 1)
            /\ 53 \notin d
            /\ d \cap (12 .. 47) = Bits(mmu_last.pa) \cap (12 .. 47)

-----------------------------------------------------------------------------
(* Device-tree claims (specification SpecDtb) *)

\* C20: on a well-formed flattened tree with a memory node, whatever
\* properties and nodes precede it, get_memory_region returns 1 and stores
\* the base and the size of the node's reg property, decoded big-endian.
C20_MemoryRegionDecoded ==
    (dtb_tree.magic /\ dtb_out # NoRegion) =>
        dtb_out = [at |-> "returned", ret |-> 1, base |-> dtb_tree.base, size |-> dtb_tree.size]

-----------------------------------------------------------------------------
(* fw_cfg claims (specification SpecFw) *)

\* the selector an entry of the directory names, in host order
HostSelector(e) == e.selector[1] * 256 + e.selector[2]
\* the entries whose name is the name searched for
Matches == {i \in DOMAIN fw_dir : fw_present /\ fw_dir[i].name = fw_search}

\* C21: fw_find_file returns true with the host-order selector of the first
\* directory entry whose name equals the name searched for exactly, and
\* false when no entry has that name.
C21_FindFileFirstExactMatch ==
    fw_ret # "none" =>
        IF Matches = {} THEN fw_ret = "false"
        ELSE /\ fw_ret = "true"
             /\ \E i \in Matches :
                   /\ \A j \in Matches : i <= j
                   /\ fw_file.selector = HostSelector(fw_dir[i])

\* a directory with the single entry etc/ramfb at selector 0x1A, found
C21_Witness ==
    /\ fw_ret = "true"
    /\ fw_dir = <<FwEntry(Name_ramfb, 26, 28)>>
    /\ fw_search = Name_ramfb
    /\ fw_file.selector = 26

\* the name is found behind a name it extends, before its second occurrence
C21_WitnessFirstOfTwo ==
    /\ fw_ret = "true"
    /\ fw_dir = <<FwEntry(Name_ram, 517, 64), FwEntry(Name_ramfb, 39, 28),
                  FwEntry(Name_ramfb, 26, 28)>>
    /\ fw_search = Name_ramfb
    /\ fw_file.selector = 39

-----------------------------------------------------------------------------
(* Claims about the process table, checked under SpecTbl *)

C22_WitnessLastSlot ==
    /\ proc_count = MAX_PROCS
    /\ create_last.fn = "create_process"
    /\ create_last.ret = "proc"
    /\ processes[MAX_PROCS - 1].id = MAX_PROCS - 1

-----------------------------------------------------------------------------
(* Claims about switch_proc, checked under SpecSwitch *)

\* the READY entries other than current, as distances after it in cyclic order
ReadyAfter(procs, cur, count) ==
    {k \in 1 .. (count - 1) : procs[(cur + k) % count].state = "READY"}

FirstReadyAfter(procs, cur, count) ==
    LET ks == ReadyAfter(procs, cur, count)
    IN  (cur + CHOOSE k \in ks : \A j \in ks : k <= j) % count

\* C23: switch_proc selection rule.  With proc_count = 0 it returns at once;
\* otherwise it makes current the first READY entry in cyclic order strictly
\* after the old current and restores that entry's context; when there is no
\* READY entry other than current (the single-process table included) it
\* returns with current unchanged and without restoring any context: the
\* caller goes on where it was.
C23_SwitchProcSelection ==
    [][(start_scheduler \/ irq_el1_handler) =>
          IF proc_count = 0 \/ ReadyAfter(processes, current_proc, proc_count) = {}
          THEN UNCHANGED <<current_proc, cpuPos, cpuEL, lastRestore>>
          ELSE LET n == FirstReadyAfter(processes, current_proc, proc_count)
               IN  /\ current_proc' = n
                   /\ lastRestore'.valid /\ lastRestore'.proc = n
                   /\ cpuPos' = processes'[n].pc]_vars

\* C23 as the code has it: with proc_count = 0 switch_proc returns at once;
\* with two or more entries it makes current the first READY entry in cyclic
\* order strictly after the old current and restores that entry's context,
\* and returns with current unchanged and nothing restored when no other
\* entry is READY; in a table of one entry the walk starts on that entry,
\* which is restored when it is READY.
C23_SelectionAsCoded ==
    [][(start_scheduler \/ irq_el1_handler) =>
          LET alone == proc_count = 1 /\ processes[0].state = "READY"
              ks == ReadyAfter(processes, current_proc, proc_count)
          IN  IF proc_count = 0 \/ (ks = {} /\ ~alone)
              THEN UNCHANGED <<current_proc, cpuPos, cpuEL, lastRestore>>
              ELSE LET n == IF alone THEN 0
                            ELSE FirstReadyAfter(processes, current_proc, proc_count)
                   IN  /\ current_proc' = n
                       /\ lastRestore'.valid /\ lastRestore'.proc = n
                       /\ cpuPos' = processes'[n].pc
                       /\ cpuEL' = SpsrEL(processes[n].spsr)]_vars

\* start_scheduler has started the only process of a table of one
C23_Witness ==
    /\ proc_count = 1
    /\ cpuPos = BodyPos(0)
    /\ lastRestore.valid /\ lastRestore.proc = 0

\* a switch over a BLOCKED entry: from process 0 to process 2 past process 1
C23_WitnessSkip ==
    /\ proc_count = 3
    /\ processes[1].state = "BLOCKED"
    /\ current_proc = 2
    /\ lastRestore.valid /\ lastRestore.proc = 2
    /\ switchLog = <<2>>

\* start_scheduler has returned to boot code: no entry of the table is READY
C23_WitnessNoSwitch ==
    /\ proc_count >= 2
    /\ cpuPos = BootPos /\ timerOn
    /\ ~lastRestore.valid

-----------------------------------------------------------------------------
(* Claims about the timer IRQ, checked under Spec *)

\* the place of the step op in the log of a handler run (0: not in it)
StepAt(log, op) ==
    IF \E k \in DOMAIN log : log[k].op = op
    THEN CHOOSE k \in DOMAIN log : log[k].op = op
    ELSE 0

\* C24: on every timer IRQ the interrupted registers and PC are saved into
\* the record of the process that was executing, then GICC_IAR is read, the
\* timer is re-armed, the IRQ id is written to GICC_EOIR, and only then
\* switch_proc changes current; no record other than that of the process
\* interrupted is overwritten, and an IRQ taken while boot code runs
\* overwrites no record.
C24_TimerIrqOrder ==
    [][irq_el1_handler =>
          /\ 0 < StepAt(irq_log', "save_context")
          /\ StepAt(irq_log', "save_context") < StepAt(irq_log', "read GICC_IAR")
          /\ 0 < StepAt(irq_log', "save_pc_interrupt")
          /\ StepAt(irq_log', "save_pc_interrupt") < StepAt(irq_log', "read GICC_IAR")
          /\ StepAt(irq_log', "read GICC_IAR") < StepAt(irq_log', "timer_reset")
          /\ StepAt(irq_log', "timer_reset") < StepAt(irq_log', "write GICC_EOIR")
          /\ StepAt(irq_log', "write GICC_EOIR") < StepAt(irq_log', "switch_proc")
          /\ irq_log'[StepAt(irq_log', "write GICC_EOIR")].v = IRQ_TIMER
          /\ cpuPos.k = "proc" => processes'[cpuPos.i].pc = cpuPos
          /\ \A i \in Procs :
                processes'[i] # processes[i] => (cpuPos.k # "boot" /\ i = current_proc)]_vars

-----------------------------------------------------------------------------
(* Claims about the console, checked under SpecCon *)

\* C25: IRQs stay masked for the whole of each console critical section:
\* from the first to the last character emitted by uart_puthex, and from the
\* start of formatting to the last character emitted by kprintf_args, there
\* is no point at which IRQs are unmasked.
C25_ConsoleSectionsMasked ==
    /\ (/\ con_pc.fn = "uart_puthex"
        /\ Len(con_out) >= 1
        /\ Len(con_out) < 2 + Len(con_text)) => irqMasked
    /\ (con_pc.fn = "kprintf_args" /\ con_pc.at \in {"format", "puts"}) => irqMasked

-----------------------------------------------------------------------------
(* Claims about the allocator under preemption, checked under SpecPre *)

\* C26: the transient allocator has exactly one mutator at a time: no talloc
\* or temp_free runs inside another one (the bootscreen process preempted by
\* the timer, then a printf syscall of proc_func), and no transient block is
\* held by two owners at once.
C26_OneAllocatorMutator ==
    /\ ~alloc_overlap
    /\ bs_s # 0 => bs_s # svc_buf

-----------------------------------------------------------------------------
(* Claims about the command engine, checked under SpecVqLive and SpecVq *)

InCall == vq_pc \notin {"idle", "returned"}

\* C27: command liveness.  With a device that eventually consumes every
\* chain published in the avail ring and increments used.idx once per chain,
\* every call of vgp_send_command eventually returns, whatever the timing of
\* the device's used.idx update relative to the driver's statements after
\* the notify store.
C27_SendCommandReturns == InCall ~> (vq_pc = "returned")

\* desc[i] has the flag (a power of two) set
DescFlag(i, flag) == (desc[i].flags \div flag) % 2 = 1

\* descriptor 0, device-readable, chained to the device-writable descriptor 1
PairedChain ==
    /\ DescFlag(0, VIRTQ_DESC_F_NEXT) /\ ~DescFlag(0, VIRTQ_DESC_F_WRITE)
    /\ desc[0].next = 1
    /\ DescFlag(1, VIRTQ_DESC_F_WRITE) /\ ~DescFlag(1, VIRTQ_DESC_F_NEXT)

\* C28: for every command the driver issues (GET_DISPLAY_INFO,
\* RESOURCE_CREATE_2D, RESOURCE_ATTACH_BACKING, SET_SCANOUT,
\* TRANSFER_TO_HOST_2D, RESOURCE_FLUSH) the chain the device sees when it is
\* notified is the device-readable command descriptor 0 chained (NEXT set,
\* next = 1) to the device-writable response descriptor 1.
C28_ChainAtNotify == [][vsc_notify => PairedChain]_vars

\* what the call in progress has to have stored before it notifies: both
\* descriptors, the head 0 in the ring slot of the avail.idx it was entered
\* with, and avail.idx one further
Published ==
    /\ desc[0] = [addr |-> "VIRTQUEUE_CMD", flags |-> vq_flags, next |-> 1]
    /\ desc[1] = [addr |-> vq_resp, flags |-> VIRTQ_DESC_F_WRITE, next |-> 0]
    /\ avail.ring[entryUsed % QUEUE_SIZE] = 0
    /\ avail.idx = (entryUsed + 1) % IdxMod

\* C29: in every vgp_send_command the notify store happens only after
\* desc[0], desc[1], avail.ring[avail.idx % 128] = 0 and the avail.idx
\* increment have all been written, and avail.idx advances by exactly one
\* per command.
C29_NotifyAfterPublish ==
    /\ [][(vsc_notify \/ (notified' /\ ~notified)) => (vq_pc = "notify" /\ Published)]_vars
    /\ [](vq_pc \in {"read_used", "spin", "returned"} =>
             avail.idx = (entryUsed + 1) % IdxMod)
    /\ [](vq_pc \in {"desc0", "desc1", "avail_ring", "avail_idx"} =>
             avail.idx = entryUsed)

\* the second call has notified the device, its flags differing from those
\* descriptor 0 had before
C29_Witness ==
    /\ vqCalls = 2
    /\ vq_pc = "read_used" /\ notified
    /\ vq_flags = VIRTQ_DESC_F_NEXT
    /\ Published

\* a notification with avail.idx wrapped from 65535 to 0
C29_WitnessWrap ==
    /\ vq_pc = "read_used" /\ notified
    /\ entryUsed = IdxMod - 1 /\ avail.idx = 0

-----------------------------------------------------------------------------
(* virtio_gpu_pci_driver.c : the order of vgp_start's register accesses and  *)
(* the first command vgp_init sends after it.                                *)

HasBit(x, b) == (x \div b) % 2 = 1

\* positions of cfg_log where register reg is written
WritesOf(reg) == {i \in DOMAIN cfg_log : cfg_log[i].op = "write" /\ cfg_log[i].reg = reg}

\* the position of the read of line 259
ReadBackAt == CHOOSE i \in DOMAIN cfg_log :
                  /\ cfg_log[i].op = "read" /\ cfg_log[i].reg = "device_status"
                  /\ \E j \in WritesOf("device_status") :
                         j < i /\ HasBit(cfg_log[j].val, VIRTIO_STATUS_FEATURES_OK)

\* the status writes of vgp_start happen in the order reset, ACKNOWLEDGE,
\* DRIVER, FEATURES_OK; what follows the read-back happens only when it
\* shows FEATURES_OK; the ring addresses precede queue_enable = 1 and
\* queue_enable precedes DRIVER_OK
BringUpOrdered ==
    LET st == WritesOf("device_status")
        First(b) == CHOOSE i \in st : /\ HasBit(cfg_log[i].val, b)
                                      /\ \A j \in st : HasBit(cfg_log[j].val, b) => i <= j
        ack == First(VIRTIO_STATUS_ACKNOWLEDGE)
        drv == First(VIRTIO_STATUS_DRIVER)
        fok == First(VIRTIO_STATUS_FEATURES_OK)
    IN  /\ cfg_log[1] = CfgAccess("write", "device_status", 0)
        /\ \A b \in {VIRTIO_STATUS_ACKNOWLEDGE, VIRTIO_STATUS_DRIVER, VIRTIO_STATUS_FEATURES_OK} :
               \E i \in st : HasBit(cfg_log[i].val, b)
        /\ 1 < ack /\ ack < drv /\ drv < fok /\ fok < ReadBackAt
        /\ (Len(cfg_log) > ReadBackAt)
              => HasBit(cfg_log[ReadBackAt].val, VIRTIO_STATUS_FEATURES_OK)
        /\ \A e \in WritesOf("queue_enable") :
               /\ cfg_log[e].val = 1
               /\ \A reg \in {"queue_desc", "queue_driver", "queue_device"} :
                      \E a \in WritesOf(reg) : a < e
        /\ \A d \in st : HasBit(cfg_log[d].val, VIRTIO_STATUS_DRIVER_OK)
               => \E e \in WritesOf("queue_enable") : e < d

\* C30: vgp_start resets device_status to 0 first, then sets ACKNOWLEDGE,
\* DRIVER and FEATURES_OK in that order; it goes on only if the read-back shows
\* FEATURES_OK; the descriptor, avail and used ring addresses are installed
\* before queue_enable = 1; DRIVER_OK is set only after queue_enable; and no
\* virtqueue command is sent before DRIVER_OK has been set.
C30_BringUpOrder ==
    /\ cfg_log # <<>> => BringUpOrdered
    /\ sentLog # <<>> =>
          \E d \in WritesOf("device_status") : HasBit(cfg_log[d].val, VIRTIO_STATUS_DRIVER_OK)

-----------------------------------------------------------------------------
(* virtio_gpu_pci_driver.c : the order of the commands of vgp_init and       *)
(* vgp_flush (specification SpecGpu).                                        *)

\* the commands in the order of the catalog
CatalogOrder ==
    << VIRTIO_GPU_CMD_GET_DISPLAY_INFO, VIRTIO_GPU_CMD_RESOURCE_CREATE_2D,
       VIRTIO_GPU_CMD_RESOURCE_ATTACH_BACKING, VIRTIO_GPU_CMD_SET_SCANOUT,
       VIRTIO_GPU_CMD_TRANSFER_TO_HOST_2D, VIRTIO_GPU_CMD_RESOURCE_FLUSH >>

\* the position at which command type t is first handed to vgp_send_command
FirstSent(t) == CHOOSE i \in DOMAIN sentLog :
                    sentLog[i] = t /\ \A j \in 1..(i - 1) : sentLog[j] # t

\* every command sent so far was first sent after all the commands that
\* precede it in the catalog
SentInCatalogOrder ==
    \A b \in DOMAIN CatalogOrder :
        CatalogOrder[b] \in SeqElems(sentLog) =>
            \A a \in 1..(b - 1) :
                /\ CatalogOrder[a] \in SeqElems(sentLog)
                /\ FirstSent(CatalogOrder[a]) < FirstSent(CatalogOrder[b])

\* C31: vgp_init with an enabled scanout issues GET_DISPLAY_INFO,
\* RESOURCE_CREATE_2D, RESOURCE_ATTACH_BACKING, SET_SCANOUT,
\* TRANSFER_TO_HOST_2D, RESOURCE_FLUSH in that order, and vgp_flush issues
\* TRANSFER_TO_HOST_2D followed by RESOURCE_FLUSH.
C31_CatalogOrder ==
    /\ (pciPresent /\ scanout_found) => SentInCatalogOrder
    /\ (vgp_ret = "true" /\ scanout_found) => SeqElems(sentLog) = SeqElems(CatalogOrder)
    /\ gpu_pc = "FLUSH_TRANSFER" =>
          sentLog[Len(sentLog)] = VIRTIO_GPU_CMD_TRANSFER_TO_HOST_2D
    /\ gpu_pc = "RESOURCE_FLUSH" =>
          /\ sentLog[Len(sentLog) - 1] = VIRTIO_GPU_CMD_TRANSFER_TO_HOST_2D
          /\ sentLog[Len(sentLog)] = VIRTIO_GPU_CMD_RESOURCE_FLUSH

-----------------------------------------------------------------------------
(* Translation-table claims (specification SpecMmu) *)

\* the table an entry points to, read without creating anything (0: none)
TableBehind(pt, tbl, idx) ==
    IF tbl = 0 \/ 0 \notin Entry(pt, tbl, idx) THEN 0
    ELSE BitsVal(Entry(pt, tbl, idx) \cap AddrMask)

\* the L3 entry that covers va in the tables pt
L3EntryOf(pt, va) ==
    LET l2 == TableBehind(pt, page_table_l1, TableIndex(va, 37))
        l3 == TableBehind(pt, l2, TableIndex(va, 30))
    IN  IF l3 = 0 THEN {} ELSE Entry(pt, l3, TableIndex(va, 21))

IsBlock(d) == d \cap {0, 1} = PD_BLOCK

\* C33: mmu_map_4kb on a virtual address whose L3 entry is already a 2 MiB
\* block descriptor aborts: every page-table entry is unchanged, the block
\* descriptor is kept, no L4 table is allocated, no page descriptor written.
C33_BlockNotRemapped ==
    [][(mmu_calls' # mmu_calls /\ mmu_last'.op = "map_4kb"
            /\ IsBlock(L3EntryOf(mmu_pt, mmu_last'.va)))
         => /\ mmu_pt' = mmu_pt
            /\ mmu_ntables' = mmu_ntables
            /\ ~mmu_last'.installed
            /\ IsBlock(L3EntryOf(mmu_pt', mmu_last'.va))]_vars

\* a 4 KiB mapping was asked for inside a region mapped as a block and aborted
C33_Witness ==
    /\ mmu_last.op = "map_4kb" /\ ~mmu_last.installed
    /\ IsBlock(L3EntryOf(mmu_pt, mmu_last.va))
    /\ mmu_ntables = 2

\* the L3 table that covers va in the tables pt (0: none)
L3TableOf(pt, va) ==
    TableBehind(pt, TableBehind(pt, page_table_l1, TableIndex(va, 37)), TableIndex(va, 30))

\* C34: the L3 block descriptor written by mmu_map_2mb(va, pa, attr_idx) is
\* (pa & ~0xFFF) | UXN (bit 54) | AF (bit 10) | SH = 0b11 | AP = 0b00 |
\* AttrIdx = attr_idx | 0b01, at index (va >> 21) & 0x1FF of the table reached
\* through l1 = (va >> 37) & 0x1FF and l2 = (va >> 30) & 0x1FF.
C34_BlockDescriptorBits ==
    mmu_last.op = "map_2mb" =>
        /\ mmu_last.tbl = L3TableOf(mmu_pt, mmu_last.va)
        /\ mmu_last.tbl # 0
        /\ Entry(mmu_pt, mmu_last.tbl, TableIndex(mmu_last.va, 21)) =
              (Bits(mmu_last.pa) \cap (12 .. 63)) \cup {54} \cup {10} \cup {8, 9}
                  \cup Shl(Bits(mmu_last.attr_index), 2) \cup {0}

-----------------------------------------------------------------------------
(* mmu_init claims (specification SpecMmuInit) *)

\* the L4 entry that covers va in the tables pt ({}: no L4 table there)
L4EntryOf(pt, va) ==
    LET e3 == L3EntryOf(pt, va)
    IN  IF e3 \cap {0, 1} # PD_TABLE THEN {}
        ELSE Entry(pt, BitsVal(e3 \cap AddrMask), TableIndex(va, 12))

\* va lies in a 2 MiB block of normal memory whose output address is the
\* 2 MiB frame of va
IdentityBlock(pt, va) ==
    LET d == L3EntryOf(pt, va)
    IN  /\ IsBlock(d)
        /\ d \cap {2, 3, 4} = Shl(Bits(MAIR_IDX_NORMAL), 2)
        /\ d \cap (21 .. 47) = Bits(va) \cap (21 .. 47)

\* va lies in a 4 KiB page with this attribute index whose output address is
\* the frame of va
IdentityPage(pt, va, attr_index) ==
    LET d == L4EntryOf(pt, va)
    IN  /\ d \cap {0, 1} = {0, 1}
        /\ d \cap {2, 3, 4} = Shl(Bits(attr_index), 2)
        /\ d \cap (12 .. 47) = Bits(va) \cap (12 .. 47)

\* C35: after mmu_init, for any linker layout, every address of
\* [kernel_start, kcode_end] lies in an identity 2 MiB normal-memory block, the
\* UART page and the GICD region lie in identity 4 KiB device pages, and every
\* page of [shared_start, shared_end] is an identity 4 KiB normal page with
\* AP = 0b10.
C35_InitMappings ==
    mi_pc = "done" =>
        /\ \A r \in (mi_layout.l.kernel_start \div GRANULE_2MB) ..
                      (mi_layout.l.kcode_end \div GRANULE_2MB) :
               IdentityBlock(mmu_pt, r * GRANULE_2MB)
        /\ IdentityPage(mmu_pt, UART0_BASE, MAIR_IDX_DEVICE)
        /\ \A k \in 0 .. (GICD_SPAN \div GRANULE_4KB) :
               IdentityPage(mmu_pt, GICD_BASE + k * GRANULE_4KB, MAIR_IDX_DEVICE)
        /\ \A g \in (mi_layout.l.shared_start \div GRANULE_4KB) ..
                      (mi_layout.l.shared_end \div GRANULE_4KB) :
               /\ IdentityPage(mmu_pt, g * GRANULE_4KB, MAIR_IDX_NORMAL)
               /\ L4EntryOf(mmu_pt, g * GRANULE_4KB) \cap {6, 7} = {7}

-----------------------------------------------------------------------------
(* Relocator frame (specification SpecReloc) *)

\* word k of the source is one the relocator has to leave as it is: not a
\* branch or ADRP at all, a branch whose target is inside the blob, or an
\* ADRP whose target is outside the data region
KeptAsIs(k) ==
    LET w == rl_blob[k]
        t == ArchTarget(w, SrcPc(k))
    IN  IF IsBranch(w) \/ IsBcond(w) THEN InBlob(t)
        ELSE IF IsAdrp(w) THEN ~InData(t)
        ELSE TRUE

\* C36: relocate_code writes every word of [src, src+size) to the same index
\* of dst; every word that is not an external B/BL/B.cond or an ADRP into the
\* data blob is written bit for bit unchanged; the source is not modified.
C36_OtherWordsUnchanged ==
    [][relocate_src_to_dst1 =>
          /\ DOMAIN rl_at1' = DOMAIN rl_blob
          /\ \A k \in DOMAIN rl_blob : KeptAsIs(k) => rl_at1'[k] = rl_blob[k]
          /\ rl_blob' = rl_blob]_vars

-----------------------------------------------------------------------------
(* Process memory claims (specification SpecProcMem) *)

\* the pages of a region of size bytes at va
RegionPages(va, size) == {PageNo(va) + k : k \in 0 .. ((size + 4095) \div 4096 - 1)}

\* C39: alloc_proc_mem(size) reserves size rounded up to the next multiple of
\* 4 KiB: on success exactly the ceil(size / 4096) pages starting at the
\* returned address become mapped and no other page's mapping changes, so a
\* 4 KiB stack request maps exactly one page.
C39_MapsRoundedSize ==
    pm_last.ret # 0 =>
        /\ pm_mapped \ pm_last.before = RegionPages(pm_last.ret, pm_last.size)
        /\ pm_last.before \subseteq pm_mapped
        /\ pm_last.size = 4096 => Cardinality(pm_mapped \ pm_last.before) = 1

\* no run of free pages long enough for size bytes exists in user RAM
NoFreeRun(mapped, size) ==
    LET n == (size + 4095) \div 4096
    IN  \A p \in 0 .. (UserRamPages - 1) :
            \/ p + n > UserRamPages
            \/ \E k \in 0 .. (n - 1) : p + k \in mapped

\* C40: the regions returned by distinct successful alloc_proc_mem calls are
\* 4 KiB-aligned, pairwise disjoint and inside [user_ram_start, user_ram_end),
\* so the data, code and stack regions of the created processes never
\* overlap; when no run of free pages of the requested length exists the
\* call returns 0 and maps nothing.
C40_RegionsDisjoint ==
    /\ \A i \in DOMAIN pm_regions :
           /\ pm_regions[i].va % 4096 = 0
           /\ pm_regions[i].va >= user_ram_start
           /\ pm_regions[i].va + align_size_4096(pm_regions[i].size) <= user_ram_end
    /\ \A i, j \in DOMAIN pm_regions :
           i # j => RegionPages(pm_regions[i].va, pm_regions[i].size)
                        \cap RegionPages(pm_regions[j].va, pm_regions[j].size) = {}
    /\ (pm_last.size # 0 /\ NoFreeRun(pm_last.before, pm_last.size)) =>
           (pm_last.ret = 0 /\ pm_mapped = pm_last.before)

\* a process was created: its data, code and stack regions are in the log
C40_Witness == pm_count >= 1 /\ Len(pm_regions) >= 3

\* a request was refused because no run of that length was free
C40_WitnessRefused ==
    /\ pm_last.size # 0 /\ pm_last.ret = 0
    /\ pm_regions # <<>>
    /\ NoFreeRun(pm_last.before, pm_last.size)

\* a step in which create_process succeeds writes processes[old count] with
\* pc at the code region and sp at the top of the stack page it has just
\* allocated, the given spsr, READY and id = old count, and nothing else
CreatedAs(spsr) ==
    pm_count' # pm_count =>
        LET n == Len(pm_regions)
            rec == pm_procs'[pm_count + 1]
        IN  /\ pm_count' = pm_count + 1
            /\ Len(pm_procs') = pm_count'
            /\ Len(pm_regions') = n + 3
            /\ rec.pc = pm_regions'[n + 2].va
            /\ RegionPages(rec.pc, pm_regions'[n + 2].size) \cap pm_mapped = {}
            /\ rec.sp = pm_regions'[n + 3].va + 4096
            /\ pm_regions'[n + 3].size = 4096
            /\ PageNo(pm_regions'[n + 3].va) \notin pm_mapped
            /\ rec.spsr = spsr
            /\ rec.state = "READY"
            /\ rec.id = pm_count
            /\ \A i \in 1 .. pm_count : pm_procs'[i] = pm_procs[i]
            /\ \A i \in 1 .. pm_count' : pm_procs'[i].id = i - 1

\* C32: after a successful create_process the new record is processes[old
\* count] with pc = base of the freshly allocated code region, sp = stack base
\* + 0x1000, spsr = 0x3C5, state READY and id = old count; proc_count has
\* grown by one and every other record is unchanged, so processes[i].id = i
\* for all i < proc_count.
C32_CreatedRecord == [][CreatedAs(SPSR_EL1H_MASKED)]_vars

\* C32 as the code has it: the same with spsr = 0 (EL0t, nothing masked)
C32_CreatedRecordEL0 == [][CreatedAs(SPSR_EL0)]_vars

\* two processes have been created, the second into processes[1]
C32_Witness ==
    /\ pm_count = 2
    /\ pm_procs[2].id = 1
    /\ pm_procs[2].pc # pm_procs[1].pc

\* no block of the free list is large enough for size bytes
NoBlockFits(a, size) == Walk(a, a.fl, NULL, size, WordPages).how = "none"

\* what panic_with_info(msg, info) puts on the UART
PanicText(msg, info) ==
    <<"*** CRAYON DOESN'T DRAW ANYMORE ***", msg, "\n", "Additional info: ">>
    \o uart_puthex(info) \o <<"\n", "System Halted">>

\* the step is a talloc of a request no free block fits and the space below
\* heap_bottom + the transient region cannot hold
OverflowingTalloc ==
    /\ allocOps' = allocOps + 1
    /\ lastCall'.op = "talloc"
    /\ NoBlockFits(CurAlloc, RoundUp(lastCall'.req))
    /\ next_free_temp_memory + RoundUp(lastCall'.req) > temp_start

\* C37: allocator overflow ends in a panic: when no free block fits and
\* next_free_temp_memory + round_up(size, 4096) would exceed heap_bottom +
\* 5 MiB, talloc returns no address and does not advance the pointer by the
\* request, and the panic it raises emits its message with the current
\* allocator pointer on the UART and reaches the halt loop (the formatting of
\* the panic path does not overflow again).
C37_OverflowPanics ==
    [][OverflowingTalloc =>
          /\ lastCall'.ret = NULL
          /\ live' = live
          /\ next_free_temp_memory' = panic_with_info_alloc(CurAlloc).nt
          /\ panicked'
          /\ cpuPos' = HaltPos
          /\ panicOut' = PanicText("Temporary allocator overflow", next_free_temp_memory)
          /\ string_format_alloc(CurAlloc, 1).how = "ok"]_vars

\* process p is inside vgp_send_command
InSendCommand(st, p) ==
    st[p].pc \in {"desc0", "desc1", "avail_ring", "avail_idx", "notify", "read_used", "spin"}

\* the invocation of process p has published its chain (avail->idx++) and has
\* not yet seen used.idx move
WaitingForUsed(st, p) == st[p].pc \in {"notify", "read_used", "spin"}

\* C38: at most one virtio-GPU command is in flight: vgp_send_command is never
\* entered while another invocation of it has published a chain and is still
\* waiting for used.idx, whatever the interleaving of processes that draw
\* (gpu_clear) and of panic paths that clear the screen.
C38_OneCommandInFlight ==
    [][\A q \in Drawers :
          (~InSendCommand(drawers, q) /\ InSendCommand(drawers', q))
          => \A p \in Drawers \ {q} : ~WaitingForUsed(drawers, p)]_vars

====
